---- MODULE Spec2Model ----
(***************************************************************************)
(* The expression engine of simple-math-lib: the tokenizer (parser.rs),    *)
(* the recursive-descent evaluator (calculator.rs) and the entry point     *)
(* parse_and_calc (lib.rs), run as a session that shares one Environment   *)
(* (variables, functions) between evaluations.                             *)
(*                                                                         *)
(* Numbers are BigDecimal values: an arbitrary-precision signed integer    *)
(* and a decimal scale.  The integer is kept as a sequence of decimal      *)
(* digits, least significant first, so that no value is cut to the range   *)
(* of the checker's machine integers.                                      *)
(***************************************************************************)
EXTENDS Integers, Sequences, FiniteSets, TLC

(***************************************************************************)
(* Program constants and model bounds.                                     *)
(***************************************************************************)
\* std::u8::MAX, the depth ceiling of calculate, factorial and pow
U8Max == 255
\* digits the quotient of a BigDecimal division is carried to
DivPrecision == 6
\* the integers written in the texts of a session are -MaxInt .. MaxInt
MaxInt == 3
\* pow(b, e) is called with b in 0 .. MaxBase and e in 0 .. MaxExp
MaxBase == 3
MaxExp == 10
\* n! is evaluated for n in 0 .. MaxOperand and for the n within Near of U8Max
MaxOperand == 6
Near == 1

(***************************************************************************)
(* Arbitrary-precision naturals (num::BigInt magnitudes): sequences of     *)
(* decimal digits, least significant first, without leading zeros; zero    *)
(* is the empty sequence.  Loops over the digits are split in halves so    *)
(* that their depth is logarithmic in the length.                          *)
(***************************************************************************)
\* e, once x is evaluated: the order of evaluation of a sequential loop
Then(x, e) == CASE x = x -> e

MaxOf(S) == CHOOSE x \in S : \A y \in S : y <= x
MinOf(S) == CHOOSE x \in S : \A y \in S : x <= y

NStrip(d) ==
  LET nz == {i \in 1..Len(d) : d[i] # 0}
  IN IF nz = {} THEN << >> ELSE SubSeq(d, 1, MaxOf(nz))

RECURSIVE NatDigits(_)
NatDigits(n) == IF n = 0 THEN << >> ELSE <<n % 10>> \o NatDigits(n \div 10)

RECURSIVE NVal(_)
NVal(d) == IF d = << >> THEN 0 ELSE d[1] + 10 * NVal(Tail(d))

NDigit(d, i) == IF i <= Len(d) THEN d[i] ELSE 0

\* -1, 0, 1 as a < b, a = b, a > b
NCmp(a, b) ==
  IF Len(a) # Len(b) THEN (IF Len(a) < Len(b) THEN -1 ELSE 1)
  ELSE LET df == {i \in 1..Len(a) : a[i] # b[i]}
       IN IF df = {} THEN 0
          ELSE IF a[MaxOf(df)] < b[MaxOf(df)] THEN -1 ELSE 1

RECURSIVE NAddRange(_, _, _, _, _)
NAddRange(a, b, lo, hi, c) ==
  IF lo > hi THEN [d |-> << >>, c |-> c]
  ELSE IF lo = hi
  THEN LET t == NDigit(a, lo) + NDigit(b, lo) + c
       IN [d |-> <<t % 10>>, c |-> t \div 10]
  ELSE LET mid == (lo + hi) \div 2
           L == NAddRange(a, b, lo, mid, c)
           H == NAddRange(a, b, mid + 1, hi, L.c)
       IN Then(L, [d |-> L.d \o H.d, c |-> H.c])

NAdd(a, b) ==
  LET n == IF Len(a) > Len(b) THEN Len(a) ELSE Len(b)
      r == NAddRange(a, b, 1, n, 0)
  IN r.d \o NatDigits(r.c)

RECURSIVE NSubRange(_, _, _, _, _)
NSubRange(a, b, lo, hi, c) ==
  IF lo > hi THEN [d |-> << >>, c |-> c]
  ELSE IF lo = hi
  THEN LET t == NDigit(a, lo) - NDigit(b, lo) - c
       IN IF t < 0 THEN [d |-> <<t + 10>>, c |-> 1] ELSE [d |-> <<t>>, c |-> 0]
  ELSE LET mid == (lo + hi) \div 2
           L == NSubRange(a, b, lo, mid, c)
           H == NSubRange(a, b, mid + 1, hi, L.c)
       IN Then(L, [d |-> L.d \o H.d, c |-> H.c])

\* a - b for a >= b
NSub(a, b) == NStrip(NSubRange(a, b, 1, Len(a), 0).d)

RECURSIVE NMulRange(_, _, _, _, _)
NMulRange(a, k, lo, hi, c) ==
  IF lo > hi THEN [d |-> << >>, c |-> c]
  ELSE IF lo = hi
  THEN LET t == a[lo] * k + c
       IN [d |-> <<t % 10>>, c |-> t \div 10]
  ELSE LET mid == (lo + hi) \div 2
           L == NMulRange(a, k, lo, mid, c)
           H == NMulRange(a, k, mid + 1, hi, L.c)
       IN Then(L, [d |-> L.d \o H.d, c |-> H.c])

\* a * k for a machine-size k
NMulSmall(a, k) ==
  IF k = 0 \/ a = << >> THEN << >>
  ELSE LET r == NMulRange(a, k, 1, Len(a), 0) IN r.d \o NatDigits(r.c)

NZeros(k) == [i \in 1..k |-> 0]
\* a * 10^k
NShift(a, k) == IF a = << >> THEN << >> ELSE NZeros(k) \o a

RECURSIVE NMulFrom(_, _, _)
NMulFrom(a, b, j) ==
  IF j > Len(b) THEN << >>
  ELSE LET rest == NMulFrom(a, b, j + 1)
       IN Then(rest, NAdd(NMulSmall(a, b[j]), NShift(rest, 1)))

NMul(a, b) ==
  IF Len(b) <= 6 THEN NMulSmall(a, NVal(b))
  ELSE IF Len(a) <= 6 THEN NMulSmall(b, NVal(a))
  ELSE NMulFrom(a, b, 1)

\* the digits hi, hi-1, .. lo of a brought down onto the remainder r
RECURSIVE NDivRange(_, _, _, _, _)
NDivRange(a, b, hi, lo, r) ==
  IF hi < lo THEN [q |-> << >>, r |-> r]
  ELSE IF hi = lo
  THEN LET cur == NStrip(<<a[hi]>> \o r)
           t == MaxOf({x \in 0..9 : NCmp(NMulSmall(b, x), cur) <= 0})
       IN Then(cur, [q |-> <<t>>, r |-> NSub(cur, NMulSmall(b, t))])
  ELSE LET mid == (lo + hi) \div 2
           H == NDivRange(a, b, hi, mid + 1, r)
           L == NDivRange(a, b, mid, lo, H.r)
       IN Then(H, [q |-> L.q \o H.q, r |-> L.r])

\* quotient and remainder of a by b, b # 0
NDivMod(a, b) ==
  LET r == NDivRange(a, b, Len(a), 1, << >>) IN [q |-> NStrip(r.q), r |-> r.r]

(***************************************************************************)
(* BigDecimal: [neg, d, s] is the value (-1)^neg * d / 10^s.  Values are   *)
(* kept canonical (no trailing fractional zeros, zero is positive with     *)
(* scale 0), so that equality of records is BigDecimal's equality by value.*)
(***************************************************************************)
Zero == [neg |-> FALSE, d |-> << >>, s |-> 0]

DCanon(neg, d, s) ==
  LET d0 == NStrip(d)
  IN IF d0 = << >> THEN Zero
     ELSE IF s < 0 THEN [neg |-> neg, d |-> NShift(d0, 0 - s), s |-> 0]
     ELSE LET z == MinOf({i \in 1..Len(d0) : d0[i] # 0}) - 1
              k == IF z < s THEN z ELSE s
          IN [neg |-> neg, d |-> SubSeq(d0, k + 1, Len(d0)), s |-> s - k]

\* BigDecimal::from of a machine integer
DInt(n) == IF n < 0 THEN DCanon(TRUE, NatDigits(0 - n), 0) ELSE DCanon(FALSE, NatDigits(n), 0)
One == DInt(1)

DIsZero(a) == a.d = << >>
DSign(a) == IF a.d = << >> THEN "NoSign" ELSE IF a.neg THEN "Minus" ELSE "Plus"
DNeg(a) == IF a.d = << >> THEN a ELSE [a EXCEPT !.neg = ~a.neg]
DAbs(a) == [a EXCEPT !.neg = FALSE]

DAdd(a, b) ==
  LET sc == IF a.s > b.s THEN a.s ELSE b.s
      x == NShift(a.d, sc - a.s)
      y == NShift(b.d, sc - b.s)
  IN Then(<<a, b>>,
          IF a.neg = b.neg THEN DCanon(a.neg, NAdd(x, y), sc)
          ELSE IF NCmp(x, y) >= 0 THEN DCanon(a.neg, NSub(x, y), sc)
          ELSE DCanon(b.neg, NSub(y, x), sc))

DSub(a, b) == DAdd(a, DNeg(b))
DMul(a, b) == Then(<<a, b>>, DCanon(a.neg # b.neg, NMul(a.d, b.d), a.s + b.s))

\* with_scale(0) and to_bigint: the integer part, cut toward zero
DTrunc(a) ==
  IF Len(a.d) <= a.s THEN Zero
  ELSE DCanon(a.neg, SubSeq(a.d, a.s + 1, Len(a.d)), 0)

\* BigDecimal's division for a non-zero divisor: the quotient carried to
\* DivPrecision more digits than the operands' scales give
DDiv(a, b) ==
  LET num == NShift(a.d, DivPrecision + b.s)
      q == NDivMod(num, b.d).q
  IN Then(<<a, b>>, DCanon(a.neg # b.neg, q, a.s + DivPrecision))

\* BigInt's remainder for a non-zero divisor: it has the dividend's sign
IRem(a, b) == DCanon(a.neg, NDivMod(a.d, b.d).r, 0)

(***************************************************************************)
(* Tokens (parser.rs, enum Token).  A text is a sequence of characters,    *)
(* each a string of length one; a name is such a sequence too.             *)
(***************************************************************************)
Tok(t, n, v) == [t |-> t, n |-> n, v |-> v]
T(t) == Tok(t, << >>, Zero)
TNum(v) == Tok("Num", << >>, v)
TVarGet(n) == Tok("VarGet", n, Zero)
TVarAssign(n) == Tok("VarAssign", n, Zero)
TBlockName(n) == Tok("BlockName", n, Zero)

DecDigits == <<"0", "1", "2", "3", "4", "5", "6", "7", "8", "9">>
HexLower == <<"a", "b", "c", "d", "e", "f">>
HexUpper == <<"A", "B", "C", "D", "E", "F">>
Lower == {"a", "b", "c", "d", "e", "f", "g", "h", "i", "j", "k", "l", "m",
          "n", "o", "p", "q", "r", "s", "t", "u", "v", "w", "x", "y", "z"}
Upper == {"A", "B", "C", "D", "E", "F", "G", "H", "I", "J", "K", "L", "M",
          "N", "O", "P", "Q", "R", "S", "T", "U", "V", "W", "X", "Y", "Z"}
IsDec(c) == \E i \in 1..10 : DecDigits[i] = c

\* char::to_digit(16)
DigitValue(c) ==
  IF IsDec(c) THEN (CHOOSE i \in 1..10 : DecDigits[i] = c) - 1
  ELSE IF \E i \in 1..6 : HexLower[i] = c THEN (CHOOSE i \in 1..6 : HexLower[i] = c) + 9
  ELSE IF \E i \in 1..6 : HexUpper[i] = c THEN (CHOOSE i \in 1..6 : HexUpper[i] = c) + 9
  ELSE 99

\* char::is_digit(radix)
IsDigit(c, radix) == DigitValue(c) < radix

StartsWith(b, p) == Len(b) >= Len(p) /\ SubSeq(b, 1, Len(p)) = p

RadixOf(num) ==
  IF StartsWith(num, <<"0", "x">>) THEN 16
  ELSE IF StartsWith(num, <<"0", "o">>) THEN 8
  ELSE IF StartsWith(num, <<"0", "b">>) THEN 2
  ELSE 10

is_num(num) ==
  LET radix == RadixOf(num)
      rest == IF radix # 10 THEN SubSeq(num, 3, Len(num)) ELSE num
  IN /\ rest # << >>
     /\ \A i \in 1..Len(rest) : IsDigit(rest[i], radix) \/ (radix = 10 /\ rest[i] = ".")

\* BigInt::from_str_radix on digits already known to be valid
RECURSIVE RadixVal(_, _, _)
RadixVal(cs, radix, n) ==
  IF n = 0 THEN << >>
  ELSE LET rest == RadixVal(cs, radix, n - 1)
       IN Then(rest, NAdd(NMulSmall(rest, radix), NatDigits(DigitValue(cs[n]))))

AllDigits(cs, radix) == cs # << >> /\ \A i \in 1..Len(cs) : IsDigit(cs[i], radix)

Reverse(q) == [i \in 1..Len(q) |-> q[Len(q) + 1 - i]]

\* the first place of one of the characters cs in b, or 0
FirstOf(b, cs) ==
  LET at == {i \in 1..Len(b) : b[i] \in cs}
  IN IF at = {} THEN 0 ELSE MinOf(at)

\* BigDecimal::from_str: digits, at most one decimal point and an optional
\* exponent
ParseDecimal(num) ==
  LET e == FirstOf(num, {"e", "E"})
      base == IF e = 0 THEN num ELSE SubSeq(num, 1, e - 1)
      expo == IF e = 0 THEN << >> ELSE SubSeq(num, e + 1, Len(num))
      p == FirstOf(base, {"."})
      lead == IF p = 0 THEN base ELSE SubSeq(base, 1, p - 1)
      trail == IF p = 0 THEN << >> ELSE SubSeq(base, p + 1, Len(base))
      digits == lead \o trail
  IN IF (e # 0 /\ ~AllDigits(expo, 10)) \/ ~AllDigits(digits, 10)
     THEN [ok |-> FALSE, val |-> Zero]
     ELSE [ok |-> TRUE,
           val |-> DCanon(FALSE,
                          Reverse([i \in 1..Len(digits) |-> DigitValue(digits[i])]),
                          Len(trail) - NVal(RadixVal(expo, 10, Len(expo))))]

parse_num(num) ==
  LET radix == RadixOf(num)
      rest == SubSeq(num, 3, Len(num))
  IN IF radix # 10
     THEN (IF AllDigits(rest, radix)
           THEN [ok |-> TRUE, val |-> DCanon(FALSE, RadixVal(rest, radix, Len(rest)), 0)]
           ELSE [ok |-> FALSE, val |-> Zero])
     ELSE ParseDecimal(num)

(***************************************************************************)
(* The tokenizer (parser.rs, parse).  The scan state is the output, the    *)
(* buffer, the error once one is returned, and whether the next character  *)
(* was already taken by chars.next() of a bit shift.                       *)
(***************************************************************************)
NoErr == <<"">>
ScanInit == [out |-> << >>, buf |-> << >>, err |-> NoErr, skip |-> FALSE]

LastIsNum(out) == out # << >> /\ out[Len(out)].t = "Num"

\* macro prepare_var
prepare_var(out) == IF LastIsNum(out) THEN Append(out, T("Mul")) ELSE out

\* macro flush
flush(st) ==
  IF st.buf = << >> THEN st
  ELSE LET r == parse_num(st.buf)
       IN IF r.ok
          THEN [st EXCEPT !.out = Append(st.out, TNum(r.val)), !.buf = << >>]
          ELSE [st EXCEPT !.out = Append(prepare_var(st.out), TVarGet(st.buf)),
                          !.buf = << >>]

SingleToken(c) ==
  CASE c = "," -> "Separator"
    [] c = ")" -> "ParenClose"
    [] c = "+" -> "Add"
    [] c = "-" -> "Sub"
    [] c = "*" -> "Mul"
    [] c = "/" -> "Div"
    [] c = "%" -> "Rem"
    [] c = "&" -> "And"
    [] c = "|" -> "Or"
    [] c = "^" -> "Xor"
    [] c = "~" -> "Not"
    [] c = "!" -> "Factorial"
    [] OTHER -> ""

IsNameChar(c) == c \in Lower \/ c \in Upper \/ IsDec(c) \/ c = "_" \/ c = "$"

\* one turn of the while loop of parse, on the character input[i]
ScanChar(st, input, i) ==
  LET c == input[i]
      push(s, t) == [s EXCEPT !.out = Append(s.out, t)]
  IN IF st.err # NoErr THEN st
     ELSE IF st.skip THEN [st EXCEPT !.skip = FALSE]
     ELSE IF c = " " THEN st
     ELSE IF SingleToken(c) # "" THEN push(flush(st), T(SingleToken(c)))
     ELSE IF c = "<" \/ c = ">"
     THEN (IF i + 1 <= Len(input) /\ input[i + 1] = c
           THEN [push(flush(st), T(IF c = "<" THEN "BitshiftLeft" ELSE "BitshiftRight"))
                   EXCEPT !.skip = TRUE]
           ELSE [st EXCEPT !.err = <<"UnclosedBitShift", c>>])
     ELSE IF c = "("
     THEN (IF st.buf = << >> THEN push(st, T("ParenOpen"))
           ELSE LET r == parse_num(st.buf)
                IN IF r.ok
                   THEN [st EXCEPT !.out = st.out \o <<TNum(r.val), T("Mul"), T("ParenOpen")>>,
                                   !.buf = << >>]
                   ELSE [st EXCEPT !.out = st.out \o <<TBlockName(st.buf), T("ParenOpen")>>,
                                   !.buf = << >>])
     ELSE IF c = "="
     THEN (IF st.buf = << >> \/ is_num(st.buf) \/ st.buf[1] = "$" \/ st.buf[1] = "0"
           THEN [st EXCEPT !.err = <<"DisallowedVariable", st.buf>>, !.buf = << >>]
           ELSE [st EXCEPT !.out = Append(st.out, TVarAssign(st.buf)), !.buf = << >>])
     ELSE LET was_num == is_num(st.buf)
              buffer == Append(st.buf, c)
              num == is_num(buffer)
          IN IF num \/ IsNameChar(c)
             THEN (IF was_num /\ ~num /\ buffer[1] # "0"
                   THEN [flush(st) EXCEPT !.buf = <<c>>]
                   ELSE [st EXCEPT !.buf = buffer])
             ELSE IF c = "." THEN [st EXCEPT !.err = <<"DisallowedDecimal">>]
             ELSE [st EXCEPT !.err = <<"DisallowedChar", c>>]

RECURSIVE ScanRange(_, _, _, _)
ScanRange(st, input, lo, hi) ==
  IF lo > hi THEN st
  ELSE IF lo = hi THEN ScanChar(st, input, lo)
  ELSE LET mid == (lo + hi) \div 2
           L == ScanRange(st, input, lo, mid)
       IN Then(L, ScanRange(L, input, mid + 1, hi))

\* Result<Vec<Token>, ParseError>
parse(input) ==
  LET st == ScanRange(ScanInit, input, 1, Len(input))
  IN IF st.err # NoErr THEN [ok |-> FALSE, err |-> st.err, tokens |-> << >>]
     ELSE [ok |-> TRUE, err |-> NoErr, tokens |-> flush(st).out]

(***************************************************************************)
(* Primitive conversions and bit operations of the evaluator.              *)
(***************************************************************************)
\* 2^63 and 2^64, digits least significant first
Pow63 == Reverse(<<9, 2, 2, 3, 3, 7, 2, 0, 3, 6, 8, 5, 4, 7, 7, 5, 8, 0, 8>>)
Pow64 == Reverse(<<1, 8, 4, 4, 6, 7, 4, 4, 0, 7, 3, 7, 0, 9, 5, 5, 1, 6, 1, 6>>)
Limb == <<6, 3, 5, 5, 6>>

Some(x) == <<x>>
None == << >>

\* BigDecimal::to_i64: the integer part, if it fits an i64
to_i64(x) ==
  LET t == DTrunc(x)
  IN IF t.neg THEN (IF NCmp(t.d, Pow63) <= 0 THEN Some(t) ELSE None)
     ELSE (IF NCmp(t.d, Pow63) < 0 THEN Some(t) ELSE None)

\* BigDecimal::to_usize (a 64-bit word): none for a negative value
to_usize(x) ==
  LET t == DTrunc(x)
  IN IF x.neg THEN None
     ELSE IF NCmp(t.d, Pow64) < 0 THEN Some(t) ELSE None

\* the four 16-bit limbs of an i64's two's complement, least significant first
RECURSIVE LimbsOf(_, _)
LimbsOf(n, k) ==
  IF k = 0 THEN << >>
  ELSE LET qr == NDivMod(n, Limb) IN Then(qr, <<NVal(qr.r)>> \o LimbsOf(qr.q, k - 1))

Twos(x) == LimbsOf(IF x.neg THEN NSub(Pow64, x.d) ELSE x.d, 4)

RECURSIVE OfLimbs(_)
OfLimbs(ls) ==
  IF ls = << >> THEN << >>
  ELSE LET rest == OfLimbs(Tail(ls))
       IN Then(rest, NAdd(NatDigits(ls[1]), NMulSmall(rest, 65536)))

\* the i64 whose two's complement the limbs are, as BigDecimal::from
FromTwos(ls) ==
  LET n == OfLimbs(ls)
  IN IF NCmp(n, Pow63) >= 0 THEN DCanon(TRUE, NSub(Pow64, n), 0) ELSE DCanon(FALSE, n, 0)

BitOf(op, a, b) ==
  CASE op = "xor" -> (IF a # b THEN 1 ELSE 0)
    [] op = "or" -> (IF a + b > 0 THEN 1 ELSE 0)
    [] op = "and" -> a * b

RECURSIVE BitsOp(_, _, _, _)
BitsOp(op, a, b, n) ==
  IF n = 0 THEN 0
  ELSE BitOf(op, a % 2, b % 2) + 2 * BitsOp(op, a \div 2, b \div 2, n - 1)

\* primitive1 ^ primitive2, primitive1 | primitive2, primitive1 & primitive2
I64Op(op, x, y) ==
  LET a == Twos(x)
      b == Twos(y)
      r == [i \in 1..4 |-> BitsOp(op, a[i], b[i], 16)]
  IN Then(<<a, b, r>>, FromTwos(r))

\* !primitive
I64Not(x) == DSub(DNeg(x), One)

RECURSIVE Pow2Small(_)
Pow2Small(n) == IF n = 0 THEN 1 ELSE 2 * Pow2Small(n - 1)

\* BigInt << n
RECURSIVE NShl(_, _)
NShl(a, n) ==
  IF n >= 16
  THEN LET m == NMulSmall(a, 65536) IN Then(m, NShl(m, n - 16))
  ELSE NMulSmall(a, Pow2Small(n))

\* BigInt >> n, on the magnitude
RECURSIVE NShr(_, _)
NShr(a, n) ==
  IF a = << >> THEN a
  ELSE IF n >= 16 THEN LET m == NDivMod(a, Limb).q IN Then(m, NShr(m, n - 16))
  ELSE NDivMod(a, NatDigits(Pow2Small(n))).q

\* a shift in a 64-bit word: the bits shifted past bit 63 are lost
IShl_word(x, n) ==
  LET r == NShl(x.d, NVal(n.d))
  IN Then(r, DCanon(x.neg, NDivMod(r, Pow64).r, 0))
IShl(x, n) == DCanon(x.neg, NShl(x.d, NVal(n.d)), 0)
IShr(x, n) == DCanon(x.neg, NShr(x.d, NVal(n.d)), 0)

require_whole(num) == DTrunc(num) = num
require_positive(num) == DSign(num) # "Minus"

(***************************************************************************)
(* The evaluator (calculator.rs) as a machine.  Each function of the       *)
(* recursive descent is a frame on the call stack; a step runs the top     *)
(* frame from where it stands to its next call or to its return.  A        *)
(* Context is its tokens, the cursor and the level; the variables and      *)
(* functions are the maps every Context refers to.                         *)
(***************************************************************************)
Ok(v) == [st |-> "Ok", val |-> v, info |-> << >>]
Err(kind, info) == [st |-> kind, val |-> Zero, info |-> info]
NoResult == [st |-> "", val |-> Zero, info |-> << >>]

Frame(fn) ==
  [fn |-> fn, pc |-> 0, name |-> None, expr1 |-> Zero, op |-> "", args |-> << >>,
   num |-> Zero, power |-> Zero, acc |-> None, times |-> 0]

Context(tokens, level) == [tokens |-> tokens, pos |-> 1, level |-> level]

Top(M) == M.stack[Len(M.stack)]
Cur(M) == M.ctxs[Len(M.ctxs)]
Front(q) == SubSeq(q, 1, Len(q) - 1)

\* tokens.peek(): the kind of the next token, "" at the end
Peek(M) == IF Cur(M).pos <= Len(Cur(M).tokens) THEN Cur(M).tokens[Cur(M).pos].t ELSE ""
PeekTok(M) == Cur(M).tokens[Cur(M).pos]
\* tokens.next()
Advance(M) ==
  IF Cur(M).pos <= Len(Cur(M).tokens)
  THEN [M EXCEPT !.ctxs[Len(M.ctxs)].pos = @ + 1]
  ELSE M

SetTop(M, f) == [M EXCEPT !.stack[Len(M.stack)] = f]
\* a call: the caller waits at pc for the callee's return
Call(M, f, callee) == [M EXCEPT !.stack = Append(Front(M.stack), f) \o <<callee>>]
\* a call in return position: the callee's result is the caller's
TailCall(M, callee) == SetTop(M, callee)
Return(M, r) == [M EXCEPT !.stack = Front(M.stack), !.ret = r]
Panic(M) == [M EXCEPT !.panic = TRUE]

\* macro to_primitive, for the binary bit operators
BitOperator(M, op, expr1, expr2) ==
  IF to_i64(expr1) = None \/ to_i64(expr2) = None
  THEN Return(M, Err("NotAPrimitive", <<"i64">>))
  ELSE Return(M, Ok(I64Op(op, to_i64(expr1)[1], to_i64(expr2)[1])))

\* calculate without the depth ceiling
calculate_unbounded(M) ==
  LET f == Top(M)
  IN CASE f.pc = 0 ->
            Call(M, [f EXCEPT !.pc = 1], Frame("calc_level2"))
       [] f.pc = 1 ->
            IF M.ret.st # "Ok" THEN Return(M, M.ret)
            ELSE IF Peek(M) = "Xor"
            THEN Call(Advance(M), [f EXCEPT !.pc = 2, !.expr1 = M.ret.val], Frame("calculate"))
            ELSE IF Peek(M) \in {"ParenClose", "Separator"} /\ Cur(M).level # 0
            THEN Return(M, M.ret)
            ELSE IF Peek(M) # ""
            THEN Return(Advance(M), Err("ExpectedEOF", <<PeekTok(M)>>))
            ELSE Return(M, M.ret)
       [] f.pc = 2 ->
            IF M.ret.st # "Ok" THEN Return(M, M.ret)
            ELSE BitOperator(M, "xor", f.expr1, M.ret.val)

\* calculate that takes a closing parenthesis or a separator as the end of
\* the expression in the outermost context too
calculate_anywhere(M) ==
  LET f == Top(M)
  IN CASE f.pc = 0 ->
            IF Cur(M).level = U8Max THEN Return(M, Err("TooDeep", << >>))
            ELSE Call(M, [f EXCEPT !.pc = 1], Frame("calc_level2"))
       [] f.pc = 1 ->
            IF M.ret.st # "Ok" THEN Return(M, M.ret)
            ELSE IF Peek(M) = "Xor"
            THEN Call(Advance(M), [f EXCEPT !.pc = 2, !.expr1 = M.ret.val], Frame("calculate"))
            ELSE IF Peek(M) \in {"ParenClose", "Separator"}
            THEN Return(M, M.ret)
            ELSE IF Peek(M) # ""
            THEN Return(Advance(M), Err("ExpectedEOF", <<PeekTok(M)>>))
            ELSE Return(M, M.ret)
       [] f.pc = 2 ->
            IF M.ret.st # "Ok" THEN Return(M, M.ret)
            ELSE BitOperator(M, "xor", f.expr1, M.ret.val)

calculate(M) ==
  LET f == Top(M)
  IN CASE f.pc = 0 ->
            IF Cur(M).level = U8Max THEN Return(M, Err("TooDeep", << >>))
            ELSE Call(M, [f EXCEPT !.pc = 1], Frame("calc_level2"))
       [] f.pc = 1 ->
            IF M.ret.st # "Ok" THEN Return(M, M.ret)
            ELSE IF Peek(M) = "Xor"
            THEN Call(Advance(M), [f EXCEPT !.pc = 2, !.expr1 = M.ret.val], Frame("calculate"))
            ELSE IF Peek(M) \in {"ParenClose", "Separator"} /\ Cur(M).level # 0
            THEN Return(M, M.ret)
            ELSE IF Peek(M) # ""
            THEN Return(Advance(M), Err("ExpectedEOF", <<PeekTok(M)>>))
            ELSE Return(M, M.ret)
       [] f.pc = 2 ->
            IF M.ret.st # "Ok" THEN Return(M, M.ret)
            ELSE BitOperator(M, "xor", f.expr1, M.ret.val)

calc_level2(M) ==
  LET f == Top(M)
  IN CASE f.pc = 0 -> Call(M, [f EXCEPT !.pc = 1], Frame("calc_level3"))
       [] f.pc = 1 ->
            IF M.ret.st # "Ok" THEN Return(M, M.ret)
            ELSE IF Peek(M) = "Or"
            THEN Call(Advance(M), [f EXCEPT !.pc = 2, !.expr1 = M.ret.val], Frame("calc_level2"))
            ELSE Return(M, M.ret)
       [] f.pc = 2 ->
            IF M.ret.st # "Ok" THEN Return(M, M.ret)
            ELSE BitOperator(M, "or", f.expr1, M.ret.val)

calc_level3(M) ==
  LET f == Top(M)
  IN CASE f.pc = 0 -> Call(M, [f EXCEPT !.pc = 1], Frame("calc_level4"))
       [] f.pc = 1 ->
            IF M.ret.st # "Ok" THEN Return(M, M.ret)
            ELSE IF Peek(M) = "And"
            THEN Call(Advance(M), [f EXCEPT !.pc = 2, !.expr1 = M.ret.val], Frame("calc_level3"))
            ELSE Return(M, M.ret)
       [] f.pc = 2 ->
            IF M.ret.st # "Ok" THEN Return(M, M.ret)
            ELSE BitOperator(M, "and", f.expr1, M.ret.val)

\* the head of a level's loop: the next operator of the level, or the return
LoopHead(M, expr1, ops, next) ==
  IF Peek(M) \in ops
  THEN Call(Advance(M), [Top(M) EXCEPT !.pc = 2, !.expr1 = expr1, !.op = Peek(M)], Frame(next))
  ELSE Return(M, Ok(expr1))

calc_level4(M) ==
  LET f == Top(M)
      ops == {"BitshiftLeft", "BitshiftRight"}
  IN CASE f.pc = 0 -> Call(M, [f EXCEPT !.pc = 1], Frame("calc_level5"))
       [] f.pc = 1 ->
            IF M.ret.st # "Ok" THEN Return(M, M.ret)
            ELSE LoopHead(M, M.ret.val, ops, "calc_level5")
       [] f.pc = 2 ->
            IF M.ret.st # "Ok" THEN Return(M, M.ret)
            ELSE IF to_usize(M.ret.val) = None
            THEN Return(M, Err("NotAPrimitive", <<"usize">>))
            ELSE IF ~require_whole(f.expr1) THEN Return(M, Err("NotAWhole", << >>))
            ELSE IF f.op = "BitshiftLeft"
            THEN LoopHead(M, IShl(f.expr1, to_usize(M.ret.val)[1]), ops, "calc_level5")
            ELSE LoopHead(M, IShr(f.expr1, to_usize(M.ret.val)[1]), ops, "calc_level5")

\* calc_level5 with the operators + and - taken for each other
calc_level5_swapped(M) ==
  LET f == Top(M)
      ops == {"Add", "Sub"}
  IN CASE f.pc = 0 -> Call(M, [f EXCEPT !.pc = 1], Frame("calc_level6"))
       [] f.pc = 1 ->
            IF M.ret.st # "Ok" THEN Return(M, M.ret)
            ELSE LoopHead(M, M.ret.val, ops, "calc_level6")
       [] f.pc = 2 ->
            IF M.ret.st # "Ok" THEN Return(M, M.ret)
            ELSE IF f.op = "Sub"
            THEN LoopHead(M, DAdd(f.expr1, M.ret.val), ops, "calc_level6")
            ELSE LoopHead(M, DSub(f.expr1, M.ret.val), ops, "calc_level6")

\* calc_level5 whose right operand is a whole calc_level5: + and - group to
\* the right
calc_level5_right(M) ==
  LET f == Top(M)
      ops == {"Add", "Sub"}
  IN CASE f.pc = 0 -> Call(M, [f EXCEPT !.pc = 1], Frame("calc_level6"))
       [] f.pc = 1 ->
            IF M.ret.st # "Ok" THEN Return(M, M.ret)
            ELSE LoopHead(M, M.ret.val, ops, "calc_level5")
       [] f.pc = 2 ->
            IF M.ret.st # "Ok" THEN Return(M, M.ret)
            ELSE IF f.op = "Add"
            THEN LoopHead(M, DAdd(f.expr1, M.ret.val), ops, "calc_level5")
            ELSE LoopHead(M, DSub(f.expr1, M.ret.val), ops, "calc_level5")

calc_level5(M) ==
  LET f == Top(M)
      ops == {"Add", "Sub"}
  IN CASE f.pc = 0 -> Call(M, [f EXCEPT !.pc = 1], Frame("calc_level6"))
       [] f.pc = 1 ->
            IF M.ret.st # "Ok" THEN Return(M, M.ret)
            ELSE LoopHead(M, M.ret.val, ops, "calc_level6")
       [] f.pc = 2 ->
            IF M.ret.st # "Ok" THEN Return(M, M.ret)
            ELSE IF f.op = "Add"
            THEN LoopHead(M, DAdd(f.expr1, M.ret.val), ops, "calc_level6")
            ELSE LoopHead(M, DSub(f.expr1, M.ret.val), ops, "calc_level6")

\* calc_level6 without the test of a zero right operand: the left operand
\* is passed on unchanged
calc_level6_unchecked(M) ==
  LET f == Top(M)
      ops == {"Mul", "Div", "Rem"}
      expr2 == M.ret.val
  IN CASE f.pc = 0 -> Call(M, [f EXCEPT !.pc = 1], Frame("calc_level7"))
       [] f.pc = 1 ->
            IF M.ret.st # "Ok" THEN Return(M, M.ret)
            ELSE LoopHead(M, M.ret.val, ops, "calc_level7")
       [] f.pc = 2 ->
            IF M.ret.st # "Ok" THEN Return(M, M.ret)
            ELSE IF f.op = "Mul" THEN LoopHead(M, DMul(f.expr1, expr2), ops, "calc_level7")
            ELSE IF DIsZero(expr2) THEN LoopHead(M, f.expr1, ops, "calc_level7")
            ELSE IF f.op = "Div" THEN LoopHead(M, DDiv(f.expr1, expr2), ops, "calc_level7")
            ELSE IF DIsZero(DTrunc(expr2)) THEN Panic(M)
            ELSE LoopHead(M, IRem(DTrunc(f.expr1), DTrunc(expr2)), ops, "calc_level7")

calc_level6(M) ==
  LET f == Top(M)
      ops == {"Mul", "Div", "Rem"}
      expr2 == M.ret.val
  IN CASE f.pc = 0 -> Call(M, [f EXCEPT !.pc = 1], Frame("calc_level7"))
       [] f.pc = 1 ->
            IF M.ret.st # "Ok" THEN Return(M, M.ret)
            ELSE LoopHead(M, M.ret.val, ops, "calc_level7")
       [] f.pc = 2 ->
            IF M.ret.st # "Ok" THEN Return(M, M.ret)
            ELSE IF f.op = "Mul" THEN LoopHead(M, DMul(f.expr1, expr2), ops, "calc_level7")
            ELSE IF DIsZero(expr2) THEN Return(M, Err("DivideByZero", << >>))
            ELSE IF f.op = "Div" THEN LoopHead(M, DDiv(f.expr1, expr2), ops, "calc_level7")
            \* BigInt % BigInt panics when to_bigint() of the divisor is zero
            ELSE IF DIsZero(DTrunc(expr2)) THEN Panic(M)
            ELSE LoopHead(M, IRem(DTrunc(f.expr1), DTrunc(expr2)), ops, "calc_level7")

calc_level7(M) ==
  LET f == Top(M)
  IN CASE f.pc = 0 -> Call(M, [f EXCEPT !.pc = 1], Frame("calc_level8"))
       [] f.pc = 1 ->
            IF M.ret.st # "Ok" THEN Return(M, M.ret)
            ELSE IF Peek(M) = "Pow"
            THEN Call(Advance(M), [f EXCEPT !.pc = 2, !.expr1 = M.ret.val], Frame("calc_level7"))
            ELSE Return(M, M.ret)
       [] f.pc = 2 ->
            IF M.ret.st # "Ok" THEN Return(M, M.ret)
            ELSE TailCall(M, [Frame("pow") EXCEPT !.num = f.expr1, !.power = M.ret.val])

calc_level8(M) ==
  LET f == Top(M)
  IN CASE f.pc = 0 -> Call(M, [f EXCEPT !.pc = 1], Frame("calc_level9"))
       [] f.pc = 1 ->
            IF M.ret.st # "Ok" THEN Return(M, M.ret)
            ELSE IF Peek(M) = "Factorial"
            THEN TailCall(Advance(M), [Frame("factorial") EXCEPT !.num = M.ret.val])
            ELSE Return(M, M.ret)

calc_level9(M) ==
  LET f == Top(M)
  IN CASE f.pc = 0 ->
            IF Peek(M) = "Not"
            THEN Call(Advance(M), [f EXCEPT !.pc = 1], Frame("calc_level9"))
            ELSE TailCall(M, Frame("calc_paren"))
       [] f.pc = 1 ->
            IF M.ret.st # "Ok" THEN Return(M, M.ret)
            ELSE IF to_i64(M.ret.val) = None
            THEN Return(M, Err("NotAPrimitive", <<"i64">>))
            ELSE Return(M, Ok(I64Not(to_i64(M.ret.val)[1])))

\* an insert that keeps the value a key already has
InsertIfAbsent(map, k, v) ==
  [x \in DOMAIN map \cup {k} |-> IF x \in DOMAIN map THEN map[x] ELSE v]
\* an insert that stores nothing
InsertNothing(map, k, v) == map
\* the bindings of a call are left in the map
RemoveNothing(map, keys) == map
\* HashMap::insert and HashMap::remove
Insert(map, k, v) == [x \in DOMAIN map \cup {k} |-> IF x = k THEN v ELSE map[x]]
Remove(map, keys) == [x \in DOMAIN map \ keys |-> map[x]]

\* (i).to_string()
RECURSIVE to_string(_)
to_string(i) ==
  IF i < 10 THEN <<DecDigits[i + 1]>> ELSE to_string(i \div 10) \o <<DecDigits[(i % 10) + 1]>>

\* the name of the i-th positional argument of a call
ArgName(i) == <<"$">> \o to_string(i)

IncorrectArguments(expected, got) == Err("IncorrectArguments", <<expected, got>>)

\* context.level is a u8: context.level += 1 and context.level + 1 overflow
\* at U8Max, which aborts the evaluation (a build without overflow checks
\* wraps to 0 instead; calculate returns TooDeep before either can happen)
Overflows(M) == Cur(M).level = U8Max

\* calc_paren after the arguments: the closing parenthesis, then the group,
\* the built-in or the user function
ParenClosed(M0, f) ==
  LET M == Advance(M0)
      n == Len(f.args)
      bound == [x \in DOMAIN M.variables \cup {ArgName(i) : i \in 1..n} |->
                  IF \E i \in 1..n : ArgName(i) = x
                  THEN f.args[CHOOSE i \in 1..n : ArgName(i) = x]
                  ELSE M.variables[x]]
  IN IF Peek(M0) # "ParenClose" THEN Return(M, Err("UnclosedParen", << >>))
     ELSE IF f.name = None
     THEN (IF n # 1 THEN Return(M, IncorrectArguments(1, n)) ELSE Return(M, Ok(f.args[1])))
     ELSE IF f.name[1] = <<"a", "b", "s">>
     THEN (IF n # 1 THEN Return(M, IncorrectArguments(1, n)) ELSE Return(M, Ok(DAbs(f.args[1]))))
     ELSE IF f.name[1] = <<"p", "o", "w">>
     THEN (IF n # 2 THEN Return(M, IncorrectArguments(2, n))
           ELSE TailCall(M, [Frame("pow") EXCEPT !.num = f.args[1], !.power = f.args[2]]))
     ELSE IF f.name[1] \notin DOMAIN M.functions
     THEN Return(M, Err("UnknownFunction", f.name))
     ELSE IF Overflows(M) THEN Panic(M)
     ELSE Call([M EXCEPT !.variables = bound,
                         !.ctxs = Append(M.ctxs,
                                         Context(M.functions[f.name[1]], Cur(M).level + 1))],
               [f EXCEPT !.pc = 2], Frame("calculate"))

SetLevel(M, l) == [M EXCEPT !.ctxs[Len(M.ctxs)].level = l]

calc_paren(M) ==
  LET f == Top(M)
      args == Append(f.args, M.ret.val)
  IN CASE f.pc = 0 ->
            IF Peek(M) = "ParenOpen"
            THEN (IF Peek(Advance(M)) = "ParenClose" THEN ParenClosed(Advance(M), f)
                  ELSE IF Overflows(M) THEN Panic(M)
                  ELSE Call(SetLevel(Advance(M), Cur(M).level + 1),
                            [f EXCEPT !.pc = 1], Frame("calculate")))
            ELSE IF f.name = None /\ Peek(M) = "BlockName"
            THEN TailCall(Advance(M), [Frame("calc_paren") EXCEPT !.name = Some(PeekTok(M).n)])
            ELSE TailCall(M, Frame("get_number"))
       [] f.pc = 1 ->
            IF M.ret.st # "Ok" THEN Return(M, M.ret)
            ELSE IF Peek(M) = "Separator"
            THEN Call(Advance(M), [f EXCEPT !.args = args], Frame("calculate"))
            ELSE ParenClosed(SetLevel(M, Cur(M).level - 1), [f EXCEPT !.args = args])
       [] f.pc = 2 ->
            Return([M EXCEPT !.variables = Remove(M.variables,
                                                  {ArgName(i) : i \in 1..Len(f.args)}),
                             !.ctxs = Front(M.ctxs)],
                   M.ret)

\* one turn of the loop of get_number that collects a function's body
DefToken(st, tokens, i) ==
  LET tok == tokens[i]
      depth == IF tok.t = "ParenOpen" THEN st.depth + 1
               ELSE IF tok.t = "ParenClose" THEN st.depth - 1
               ELSE st.depth
  IN IF st.st # "" THEN st
     ELSE IF tok.t = "Separator" /\ st.depth = 1
     THEN [st EXCEPT !.st = "SeparatorInDef", !.pos = i + 1]
     ELSE [st EXCEPT !.depth = depth, !.body = Append(st.body, tok), !.pos = i + 1,
                     !.st = IF depth = 0 THEN "Ok"
                            ELSE IF depth = U8Max THEN "TooDeep" ELSE ""]

RECURSIVE DefRange(_, _, _, _)
DefRange(st, tokens, lo, hi) ==
  IF lo > hi THEN st
  ELSE IF lo = hi THEN DefToken(st, tokens, lo)
  ELSE LET mid == (lo + hi) \div 2
           L == DefRange(st, tokens, lo, mid)
       IN Then(L, DefRange(L, tokens, mid + 1, hi))

\* the body of a definition, from the token after its opening parenthesis
CollectDef(tokens, from) ==
  LET st == DefRange([st |-> "", depth |-> 1, body |-> << >>, pos |-> from],
                     tokens, from, Len(tokens))
  IN IF st.st = "" THEN [st EXCEPT !.st = "UnclosedParen"] ELSE st

\* get_number taking name=( for the assignment of a parenthesised expression:
\* the body is evaluated at once and its value stored in the variable
get_number_eager(M0) ==
  LET f == Top(M0)
      tok == PeekTok(M0)
      M == Advance(M0)
  IN CASE f.pc = 0 ->
            IF Peek(M0) = "Num" THEN Return(M, Ok(tok.v))
            ELSE IF Peek(M0) = "Sub" THEN Call(M, [f EXCEPT !.pc = 1], Frame("calc_paren"))
            ELSE IF Peek(M0) = "VarAssign"
            THEN Call(M, [f EXCEPT !.pc = 2, !.name = Some(tok.n)], Frame("calculate"))
            ELSE IF Peek(M0) = "VarGet"
            THEN (IF tok.n \in DOMAIN M.variables THEN Return(M, Ok(M.variables[tok.n]))
                  ELSE Return(M, Err("UnknownVariable", <<tok.n>>)))
            ELSE Return(M, Err("InvalidSyntax", << >>))
       [] f.pc = 1 ->
            IF M0.ret.st # "Ok" THEN Return(M0, M0.ret)
            ELSE Return(M0, Ok(DNeg(M0.ret.val)))
       [] f.pc = 2 ->
            IF M0.ret.st # "Ok" THEN Return(M0, M0.ret)
            ELSE Return([M0 EXCEPT !.variables = Insert(M0.variables, f.name[1], M0.ret.val)],
                        Ok(Zero))

\* get_number that stores zero under the name when the right-hand side
\* of an assignment fails
get_number_clobber(M0) ==
  LET f == Top(M0)
      tok == PeekTok(M0)
      M == Advance(M0)
      def == CollectDef(Cur(M).tokens, Cur(M).pos + 1)
      At(pos) == [M EXCEPT !.ctxs[Len(M.ctxs)].pos = pos]
  IN CASE f.pc = 0 ->
            IF Peek(M0) = "Num" THEN Return(M, Ok(tok.v))
            ELSE IF Peek(M0) = "Sub" THEN Call(M, [f EXCEPT !.pc = 1], Frame("calc_paren"))
            ELSE IF Peek(M0) = "VarAssign"
            THEN (IF Peek(M) = "ParenOpen"
                  THEN (IF def.st # "Ok" THEN Return(At(def.pos), Err(def.st, << >>))
                        ELSE Return([At(def.pos) EXCEPT
                                       !.functions = Insert(M.functions, tok.n, def.body)],
                                    Ok(Zero)))
                  ELSE Call(M, [f EXCEPT !.pc = 2, !.name = Some(tok.n)], Frame("calculate")))
            ELSE IF Peek(M0) = "VarGet"
            THEN (IF tok.n \in DOMAIN M.variables THEN Return(M, Ok(M.variables[tok.n]))
                  ELSE Return(M, Err("UnknownVariable", <<tok.n>>)))
            ELSE Return(M, Err("InvalidSyntax", << >>))
       [] f.pc = 1 ->
            IF M0.ret.st # "Ok" THEN Return(M0, M0.ret)
            ELSE Return(M0, Ok(DNeg(M0.ret.val)))
       [] f.pc = 2 ->
            IF M0.ret.st # "Ok"
            THEN Return([M0 EXCEPT !.variables = Insert(M0.variables, f.name[1], Zero)],
                        M0.ret)
            ELSE Return([M0 EXCEPT !.variables = Insert(M0.variables, f.name[1], M0.ret.val)],
                        Ok(Zero))

\* get_number whose minus negates a whole calc_level8, the postfix ! included
get_number_wide(M0) ==
  LET f == Top(M0)
      tok == PeekTok(M0)
      M == Advance(M0)
      def == CollectDef(Cur(M).tokens, Cur(M).pos + 1)
      At(pos) == [M EXCEPT !.ctxs[Len(M.ctxs)].pos = pos]
  IN CASE f.pc = 0 ->
            IF Peek(M0) = "Num" THEN Return(M, Ok(tok.v))
            ELSE IF Peek(M0) = "Sub" THEN Call(M, [f EXCEPT !.pc = 1], Frame("calc_level8"))
            ELSE IF Peek(M0) = "VarAssign"
            THEN (IF Peek(M) = "ParenOpen"
                  THEN (IF def.st # "Ok" THEN Return(At(def.pos), Err(def.st, << >>))
                        ELSE Return([At(def.pos) EXCEPT
                                       !.functions = Insert(M.functions, tok.n, def.body)],
                                    Ok(Zero)))
                  ELSE Call(M, [f EXCEPT !.pc = 2, !.name = Some(tok.n)], Frame("calculate")))
            ELSE IF Peek(M0) = "VarGet"
            THEN (IF tok.n \in DOMAIN M.variables THEN Return(M, Ok(M.variables[tok.n]))
                  ELSE Return(M, Err("UnknownVariable", <<tok.n>>)))
            ELSE Return(M, Err("InvalidSyntax", << >>))
       [] f.pc = 1 ->
            IF M0.ret.st # "Ok" THEN Return(M0, M0.ret)
            ELSE Return(M0, Ok(DNeg(M0.ret.val)))
       [] f.pc = 2 ->
            IF M0.ret.st # "Ok" THEN Return(M0, M0.ret)
            ELSE Return([M0 EXCEPT !.variables = Insert(M0.variables, f.name[1], M0.ret.val)],
                        Ok(Zero))

get_number(M0) ==
  LET f == Top(M0)
      tok == PeekTok(M0)
      M == Advance(M0)
      def == CollectDef(Cur(M).tokens, Cur(M).pos + 1)
      At(pos) == [M EXCEPT !.ctxs[Len(M.ctxs)].pos = pos]
  IN CASE f.pc = 0 ->
            IF Peek(M0) = "Num" THEN Return(M, Ok(tok.v))
            ELSE IF Peek(M0) = "Sub" THEN Call(M, [f EXCEPT !.pc = 1], Frame("calc_paren"))
            ELSE IF Peek(M0) = "VarAssign"
            THEN (IF Peek(M) = "ParenOpen"
                  THEN (IF def.st # "Ok" THEN Return(At(def.pos), Err(def.st, << >>))
                        ELSE Return([At(def.pos) EXCEPT
                                       !.functions = Insert(M.functions, tok.n, def.body)],
                                    Ok(Zero)))
                  ELSE Call(M, [f EXCEPT !.pc = 2, !.name = Some(tok.n)], Frame("calculate")))
            ELSE IF Peek(M0) = "VarGet"
            THEN (IF tok.n \in DOMAIN M.variables THEN Return(M, Ok(M.variables[tok.n]))
                  ELSE Return(M, Err("UnknownVariable", <<tok.n>>)))
            ELSE Return(M, Err("InvalidSyntax", << >>))
       [] f.pc = 1 ->
            IF M0.ret.st # "Ok" THEN Return(M0, M0.ret)
            ELSE Return(M0, Ok(DNeg(M0.ret.val)))
       [] f.pc = 2 ->
            IF M0.ret.st # "Ok" THEN Return(M0, M0.ret)
            ELSE Return([M0 EXCEPT !.variables = Insert(M0.variables, f.name[1], M0.ret.val)],
                        Ok(Zero))

UnwrapOr(acc, v) == IF acc = None THEN v ELSE acc[1]

\* factorial that multiplies the operands below num: (num-1) * .. * 0
factorial_below(M) ==
  LET f == Top(M)
  IN IF f.times = U8Max THEN Return(M, Err("TooDeep", << >>))
     ELSE IF ~require_whole(f.num) THEN Return(M, Err("NotAWhole", << >>))
     ELSE IF ~require_positive(f.num) THEN Return(M, Err("NotAPositive", << >>))
     ELSE IF DIsZero(f.num) THEN Return(M, Ok(UnwrapOr(f.acc, One)))
     ELSE SetTop(M, [f EXCEPT !.acc = Some(DMul(UnwrapOr(f.acc, One), DSub(f.num, One))),
                              !.num = DSub(f.num, One), !.times = f.times + 1])

\* factorial without the depth ceiling
factorial_unbounded(M) ==
  LET f == Top(M)
  IN IF ~require_whole(f.num) THEN Return(M, Err("NotAWhole", << >>))
     ELSE IF ~require_positive(f.num) THEN Return(M, Err("NotAPositive", << >>))
     ELSE IF DIsZero(f.num) THEN Return(M, Ok(UnwrapOr(f.acc, One)))
     ELSE SetTop(M, [f EXCEPT !.acc = Some(DMul(UnwrapOr(f.acc, One), f.num)),
                              !.num = DSub(f.num, One)])

\* one call of factorial(num, acc, times); the recursive call is in return
\* position and takes the frame over
factorial(M) ==
  LET f == Top(M)
  IN IF f.times = U8Max THEN Return(M, Err("TooDeep", << >>))
     ELSE IF ~require_whole(f.num) THEN Return(M, Err("NotAWhole", << >>))
     ELSE IF ~require_positive(f.num) THEN Return(M, Err("NotAPositive", << >>))
     ELSE IF DIsZero(f.num) THEN Return(M, Ok(UnwrapOr(f.acc, One)))
     ELSE SetTop(M, [f EXCEPT !.acc = Some(DMul(UnwrapOr(f.acc, One), f.num)),
                              !.num = DSub(f.num, One),
                              !.times = f.times + 1])

\* one call of pow(num, power, acc, times)
pow(M) ==
  LET f == Top(M)
      two == DInt(2)
      sq == DMul(UnwrapOr(f.acc, One), f.num)
  IN IF f.times = U8Max THEN Return(M, Err("TooDeep", << >>))
     ELSE IF ~require_positive(f.num) THEN Return(M, Err("NotAPositive", << >>))
     ELSE IF ~require_whole(f.power) THEN Return(M, Err("NotAWhole", << >>))
     ELSE IF DSign(f.power) = "NoSign" THEN Return(M, Ok(UnwrapOr(f.acc, f.num)))
     ELSE IF DSign(f.power) = "Plus"
     THEN (IF DIsZero(IRem(f.power, two))
           THEN SetTop(M, [f EXCEPT !.acc = Some(DMul(sq, f.num)),
                                    !.power = DDiv(f.power, two),
                                    !.times = f.times + 1])
           ELSE SetTop(M, [f EXCEPT !.acc = Some(sq),
                                    !.power = DSub(f.power, One),
                                    !.times = f.times + 1]))
     \* BigDecimal's division panics on a zero divisor
     ELSE IF DIsZero(f.num) THEN Panic(M)
     ELSE SetTop(M, [f EXCEPT !.num = DDiv(One, f.num),
                              !.power = DAbs(f.power),
                              !.times = f.times + 1])

(***************************************************************************)
(* The session (main.rs): the arguments of the command line are evaluated  *)
(* one after another by parse_and_calc, all against the same variables     *)
(* and functions.                                                          *)
(***************************************************************************)
VARIABLES
  args,       \* the texts to evaluate, in order
  argi,       \* how many of them parse_and_calc was called on
  variables,  \* HashMap<String, BigDecimal>
  functions,  \* HashMap<String, Vec<Token>>
  ctxs,       \* the Contexts of the evaluation in progress, innermost last
  stack,      \* its call stack, innermost frame last
  ret,        \* the value the last return passed to its caller
  phase,      \* "idle" between evaluations, "running", "crashed" after a panic
  results     \* what parse_and_calc returned for each text so far

vars == <<args, argi, variables, functions, ctxs, stack, ret, phase, results>>

Machine ==
  [ctxs |-> ctxs, stack |-> stack, ret |-> ret, variables |-> variables,
   functions |-> functions, panic |-> FALSE]

Apply(M) ==
  /\ ctxs' = M.ctxs
  /\ stack' = M.stack
  /\ ret' = M.ret
  /\ variables' = M.variables
  /\ functions' = M.functions
  /\ phase' = IF M.panic THEN "crashed" ELSE "running"
  /\ results' = IF M.panic THEN Append(results, Err("panic", << >>)) ELSE results
  /\ UNCHANGED <<args, argi>>

Running(fn) == phase = "running" /\ stack # << >> /\ stack[Len(stack)].fn = fn

\* main: variables holds "out" = 10, functions is empty
InitWith(scripts) ==
  /\ args \in scripts
  /\ argi = 0
  /\ variables = [x \in {<<"o", "u", "t">>} |-> DInt(10)]
  /\ functions = << >>
  /\ ctxs = << >>
  /\ stack = << >>
  /\ ret = NoResult
  /\ phase = "idle"
  /\ results = << >>

\* parse_and_calc(input, variables, functions): parse, then calculate on a
\* new Context
ParseAndCalc ==
  /\ phase = "idle"
  /\ argi < Len(args)
  /\ argi' = argi + 1
  /\ LET parsed == parse(args[argi + 1])
     IN IF parsed.ok
        THEN /\ ctxs' = <<Context(parsed.tokens, 0)>>
             /\ stack' = <<Frame("calculate")>>
             /\ phase' = "running"
             /\ results' = results
        ELSE /\ ctxs' = << >>
             /\ stack' = << >>
             /\ phase' = "idle"
             /\ results' = Append(results, Err("ParseError", parsed.err))
  /\ ret' = NoResult
  /\ UNCHANGED <<args, variables, functions>>

Calculate == Running("calculate") /\ Apply(calculate(Machine))
CalcLevel2 == Running("calc_level2") /\ Apply(calc_level2(Machine))
CalcLevel3 == Running("calc_level3") /\ Apply(calc_level3(Machine))
CalcLevel4 == Running("calc_level4") /\ Apply(calc_level4(Machine))
CalcLevel5 == Running("calc_level5") /\ Apply(calc_level5(Machine))
CalcLevel6 == Running("calc_level6") /\ Apply(calc_level6(Machine))
CalcLevel7 == Running("calc_level7") /\ Apply(calc_level7(Machine))
CalcLevel8 == Running("calc_level8") /\ Apply(calc_level8(Machine))
CalcLevel9 == Running("calc_level9") /\ Apply(calc_level9(Machine))
CalcParen == Running("calc_paren") /\ Apply(calc_paren(Machine))
GetNumber == Running("get_number") /\ Apply(get_number(Machine))
Factorial == Running("factorial") /\ Apply(factorial(Machine))
Pow == Running("pow") /\ Apply(pow(Machine))

\* the outermost calculate returned: parse_and_calc returns its result
Returned ==
  /\ phase = "running"
  /\ stack = << >>
  /\ results' = Append(results, ret)
  /\ phase' = "idle"
  /\ ctxs' = << >>
  /\ UNCHANGED <<args, argi, variables, functions, stack, ret>>

Next ==
  \/ ParseAndCalc
  \/ Calculate
  \/ CalcLevel2
  \/ CalcLevel3
  \/ CalcLevel4
  \/ CalcLevel5
  \/ CalcLevel6
  \/ CalcLevel7
  \/ CalcLevel8
  \/ CalcLevel9
  \/ CalcParen
  \/ GetNumber
  \/ Factorial
  \/ Pow
  \/ Returned

(***************************************************************************)
(* The texts of the sessions.                                              *)
(***************************************************************************)
IntText(n) == IF n < 0 THEN <<"-">> \o to_string(0 - n) ELSE to_string(n)
Ints == (0 - MaxInt)..MaxInt

\* a op b
Bin(a, op, b) == a \o op \o b
\* pow(b,e)
PowCall(b, e) == <<"p", "o", "w", "(">> \o b \o <<",">> \o e \o <<")">>
\* name=(body) and name(args)
Def(name, body) == name \o <<"=", "(">> \o body \o <<")">>
CallOf(name, a) == name \o <<"(">> \o a \o <<")">>
Assign(name, a) == name \o <<"=">> \o a
Postfix(a) == a \o <<"!">>

PowScripts ==
  {<<PowCall(IntText(b), IntText(e))>> : b \in 0..MaxBase, e \in 0..MaxExp}
StarScripts ==
  {<<Bin(IntText(a), <<"*", "*">>, IntText(b))>> : a \in 1..MaxBase, b \in {1, 2, MaxExp}}
    \cup {<<Bin(<<"2">>, <<"*", "*">>, <<"3", "*", "*", "2">>)>>}
IntScripts ==
  {<<Bin(IntText(a), <<op>>, IntText(b))>> : a \in Ints, b \in Ints, op \in {"+", "*"}}

Dividends == {<<"5">>, <<"0">>, <<"-", "3">>, <<"2", ".", "5">>, <<"(", "1", "+", "1", ")">>}
ZeroTexts == {<<"0">>, <<"0", ".", "0">>, <<"-", "0">>, <<"(", "1", "-", "1", ")">>}
DivScripts == {<<Bin(a, <<op>>, z)>> : a \in Dividends, z \in ZeroTexts, op \in {"/", "%"}}

\* divisors and exponents on which the arithmetic of the library aborts
PanicScripts ==
  {<<Bin(a, <<"%">>, b)>> : a \in {<<"5">>, <<"0">>},
                            b \in {<<"0", ".", "5">>, <<"-", "0", ".", "2", "5">>}}
    \cup {<<PowCall(<<"0">>, <<"-", "1">>)>>, <<PowCall(<<"0">>, <<"-", "2">>)>>}

FactOperands == (0..MaxOperand) \cup ((U8Max - Near)..(U8Max + Near))
FactScripts == {<<Postfix(IntText(n))>> : n \in FactOperands}
Fractions == {<<"2", ".", "5">>, <<"0", ".", "5">>, <<"(", "-", "2", ".", "5", ")">>,
              <<"(", "1", "/", "4", ")">>}
Negatives == {<<"(", "-", "1", ")">>, <<"(", "0", "-", "3", ")">>, <<"-", "2">>,
              <<"(", "-", "2", "5", "6", ")">>}
FactErrorScripts == {<<Postfix(a)>> : a \in Fractions \cup Negatives}

NameF == <<"f">>
NameG == <<"g">>
NameX == <<"x">>
NameY == <<"y">>
Arg1 == <<"$", "1">>
Arg2 == <<"$", "2">>
\* the bodies $1+$2, $1*$2, $1-$2
Bodies == {Bin(Arg1, <<op>>, Arg2) : op \in {"+", "*", "-"}}
Call23 == CallOf(NameF, <<"2", ",", "3">>)
\* f(a,b)=a+b
CallSyntaxDef == <<"f", "(", "a", ",", "b", ")", "=", "a", "+", "b">>
DefScripts ==
  {<<Def(NameF, b1), Call23, Def(NameF, b2), Call23>> : b1 \in Bodies, b2 \in Bodies}
    \cup {<<CallSyntaxDef, Call23>>}

\* bodies whose evaluation fails, or needs a variable assigned later
LazyBodies == {<<"1", "/", "0">>, NameY, <<"y", "+", "1">>, <<"5", "%", "0">>, <<"2">>}
LazyScripts ==
  {<<Def(NameG, b), <<"2", "+", "3">>, CallOf(NameG, << >>), Assign(NameY, <<"4">>),
     CallOf(NameG, << >>)>> : b \in LazyBodies}
    \cup {<<Def(NameG, b1), Def(NameG, b2), Def(NameG, b3), CallOf(NameG, << >>)>> :
            b1 \in {<<"1">>, <<"1", "/", "0">>}, b2 \in {<<"2">>, NameY}, b3 \in {<<"3">>, <<"4">>}}

\* x=a, then something else, then x+1
Between ==
  {<<"y", "=", "9">>, <<"x", "/", "0">>, <<"x", "=", "y">>, <<"x", "+", "1">>,
   <<"x", "=", "(", "7", ")">>}
    \cup {Assign(NameX, IntText(c)) : c \in 0..MaxInt}
\* x+1
XPlus1 == <<"x", "+", "1">>
\* the values assigned first: the integers of the bound, and the 5 of x=5
Assigned == Ints \cup {5}
VarScripts ==
  {<<Assign(NameX, IntText(a)), m, XPlus1>> : a \in Assigned, m \in Between}

Scripts ==
  PowScripts \cup StarScripts \cup IntScripts \cup DivScripts \cup PanicScripts
    \cup FactScripts \cup FactErrorScripts \cup DefScripts \cup LazyScripts \cup VarScripts

Spec == InitWith(Scripts) /\ [][Next]_vars

(***************************************************************************)
(* The properties.  Evaluated(i) says that parse_and_calc has returned     *)
(* (or aborted) on the i-th text of the session; results[i] is what it     *)
(* returned.                                                               *)
(***************************************************************************)
Evaluated(i) == i <= Len(results)
Only(text) == args = <<text>> /\ Evaluated(1)
\* the map has the value v under the key k
Holds(map, k, v) == k \in DOMAIN map /\ map[k] = v

\* C1: pow(b, e) is b to the power e for every base b >= 0 and every whole
\* exponent e >= 0 (pow(b, 0) = 1, pow(b, 1) = b, pow(b, 2) = b*b,
\* pow(2, 10) = 1024).
PowIsPower ==
  \A b \in 0..MaxBase, e \in 0..MaxExp :
    Only(PowCall(IntText(b), IntText(e))) => results[1] = Ok(DInt(b ^ e))

\* C2: the text a**b is tokenized as the exponent operator and evaluates to
\* a to the power b, and a**b**c groups to the right: 2**3**2 is 2^9 = 512.
StarStarIsExponent ==
  /\ \A a \in 1..MaxBase, b \in {1, 2, MaxExp} :
       Only(Bin(IntText(a), <<"*", "*">>, IntText(b))) => results[1] = Ok(DInt(a ^ b))
  /\ Only(Bin(<<"2">>, <<"*", "*">>, <<"3", "*", "*", "2">>)) => results[1] = Ok(DInt(512))

\* 2 op 3 for the operator of a body $1 op $2
OpOf(body) == body[Len(Arg1) + 1]
Value23(body) == IF OpOf(body) = "+" THEN 5 ELSE IF OpOf(body) = "*" THEN 6 ELSE -1
\* what a definition stores: the tokens of the body and the closing parenthesis
Stored(body) == parse(body).tokens \o <<T("ParenClose")>>

\* C3, as stated: evaluating f(a,b)=a+b succeeds, and f(2,3) evaluated next
\* returns 5.
CallSyntaxDefines ==
  args = <<CallSyntaxDef, Call23>> =>
    /\ Evaluated(1) => results[1].st = "Ok"
    /\ Evaluated(2) => results[2] = Ok(DInt(5))

\* C3, amended: evaluating f=($1+$2) returns zero and stores the body
\* unevaluated, f(2,3) evaluated next applies the body to 2 and 3 (5 for
\* $1+$2), and a later definition of f in the same form replaces the body.
PositionalDefinitionIsCalled ==
  \A b1 \in Bodies, b2 \in Bodies :
    args = <<Def(NameF, b1), Call23, Def(NameF, b2), Call23>> =>
      /\ Evaluated(1) => results[1] = Ok(Zero)
      /\ (Evaluated(1) /\ argi <= 2) => Holds(functions, NameF, Stored(b1))
      /\ Evaluated(2) => results[2] = Ok(DInt(Value23(b1)))
      /\ Evaluated(3) => results[3] = Ok(Zero) /\ Holds(functions, NameF, Stored(b2))
      /\ Evaluated(4) => results[4] = Ok(DInt(Value23(b2)))

\* f=($1+$2), f(2,3), f=($1*$2), f(2,3) has returned 0, 5, 0, 6
PositionalDefinitionWitness ==
  /\ args = <<Def(NameF, Bin(Arg1, <<"+">>, Arg2)), Call23,
              Def(NameF, Bin(Arg1, <<"*">>, Arg2)), Call23>>
  /\ results = <<Ok(Zero), Ok(DInt(5)), Ok(Zero), Ok(DInt(6))>>

\* C4: evaluation returns a Number or a CalcError and never aborts, also on
\* a % b with 0 < |b| < 1 and on pow(0, e) with e < 0.
NeverPanics == phase # "crashed"

\* C5: a / b and a % b with b equal to zero fail with DivideByZero, for
\* every dividend a.
ZeroDivisorIsDivideByZero ==
  \A a \in Dividends, z \in ZeroTexts, op \in {"/", "%"} :
    Only(Bin(a, <<op>>, z)) => results[1] = Err("DivideByZero", << >>)

\* 2.5 % (1-1) has failed with DivideByZero
ZeroDivisorWitness ==
  /\ args = <<Bin(<<"2", ".", "5">>, <<"%">>, <<"(", "1", "-", "1", ")">>)>>
  /\ results = <<Err("DivideByZero", << >>)>>

\* C6: for integers a and b, negative ones written with a leading minus,
\* the text a+b evaluates to exactly a+b and the text a*b to exactly a*b.
IntegerSumAndProductExact ==
  \A a \in Ints, b \in Ints :
    /\ Only(Bin(IntText(a), <<"+">>, IntText(b))) => results[1] = Ok(DInt(a + b))
    /\ Only(Bin(IntText(a), <<"*">>, IntText(b))) => results[1] = Ok(DInt(a * b))

\* -MaxInt+-1 has returned -(MaxInt + 1)
IntegerSumWitness ==
  /\ args = <<Bin(IntText(0 - MaxInt), <<"+">>, IntText(-1))>>
  /\ results = <<Ok(DInt(0 - (MaxInt + 1)))>>

\* acc * lo * (lo+1) * .. * hi, in ascending order
RECURSIVE ProductFrom(_, _, _)
ProductFrom(acc, lo, hi) ==
  IF lo > hi THEN acc
  ELSE IF lo = hi THEN NMulSmall(acc, lo)
  ELSE LET mid == (lo + hi) \div 2
           L == ProductFrom(acc, lo, mid)
       IN Then(L, ProductFrom(L, mid + 1, hi))

\* C7: for every whole n with 0 <= n below the depth ceiling, n! returns
\* the product 1*2*..*n; 0! = 1 and 5! = 120.
FactorialIsProduct ==
  /\ \A n \in {m \in FactOperands : m < U8Max} :
       Only(Postfix(IntText(n))) =>
         results[1] = Ok(DCanon(FALSE, ProductFrom(<<1>>, 1, n), 0))
  /\ Only(Postfix(<<"0">>)) => results[1] = Ok(DInt(1))
  /\ Only(Postfix(<<"5">>)) => results[1] = Ok(DInt(120))

\* (U8Max - 1)! has returned a number
FactorialWitness ==
  /\ args = <<Postfix(IntText(U8Max - 1))>>
  /\ Evaluated(1)
  /\ results[1].st = "Ok"
  /\ results[1].val = DCanon(FALSE, ProductFrom(<<1>>, 1, U8Max - 1), 0)

\* C8: n! fails with NotAWhole on an operand that is not whole, with
\* NotAPositive on a whole negative operand and with TooDeep on a whole
\* operand of at least 255; on whole operands from 0 to 254 it does not fail.
FactorialErrors ==
  /\ \A a \in Fractions : Only(Postfix(a)) => results[1] = Err("NotAWhole", << >>)
  /\ \A a \in Negatives : Only(Postfix(a)) => results[1] = Err("NotAPositive", << >>)
  /\ \A n \in FactOperands :
       Only(Postfix(IntText(n))) =>
         IF n >= U8Max THEN results[1] = Err("TooDeep", << >>) ELSE results[1].st = "Ok"

\* U8Max! has failed with TooDeep
FactorialTooDeepWitness ==
  /\ args = <<Postfix(IntText(U8Max))>>
  /\ results = <<Err("TooDeep", << >>)>>

\* the value of x after x=a and then the text m
IsAssign(m) == \E c \in 0..MaxInt : m = Assign(NameX, IntText(c))
AfterBetween(a, m) ==
  IF IsAssign(m) THEN CHOOSE c \in 0..MaxInt : m = Assign(NameX, IntText(c)) ELSE a

\* C9: a successful assignment name = expr evaluates to zero and leaves
\* variables[name] equal to the value of expr; every later evaluation of
\* the session reads that value until name is assigned again: x=5 followed
\* by x+1 returns 6.
AssignmentPersists ==
  \A a \in Assigned, m \in Between :
    args = <<Assign(NameX, IntText(a)), m, XPlus1>> =>
      /\ Evaluated(1) => results[1] = Ok(Zero)
      /\ (Evaluated(1) /\ argi = 1) => Holds(variables, NameX, DInt(a))
      /\ (Evaluated(2) /\ IsAssign(m)) => results[2] = Ok(Zero)
      /\ (Evaluated(2) /\ m = XPlus1) => results[2] = Ok(DInt(a + 1))
      /\ Evaluated(2) => Holds(variables, NameX, DInt(AfterBetween(a, m)))
      /\ Evaluated(3) => results[3] = Ok(DInt(AfterBetween(a, m) + 1))

\* x=5, y=9, x+1 has returned 0, 0, 6
AssignmentWitness ==
  /\ args = <<Assign(NameX, <<"5">>), Assign(NameY, <<"9">>), XPlus1>>
  /\ results = <<Ok(Zero), Ok(Zero), Ok(DInt(6))>>

\* what a call of g returns for each body, before and after y=4
UnknownY == Err("UnknownVariable", <<NameY>>)
LazyBefore(b) ==
  CASE b = <<"1", "/", "0">> -> Err("DivideByZero", << >>)
    [] b = <<"5", "%", "0">> -> Err("DivideByZero", << >>)
    [] b = NameY -> UnknownY
    [] b = <<"y", "+", "1">> -> UnknownY
    [] b = <<"2">> -> Ok(DInt(2))
LazyAfter(b) ==
  CASE b = NameY -> Ok(DInt(4))
    [] b = <<"y", "+", "1">> -> Ok(DInt(5))
    [] OTHER -> LazyBefore(b)

\* C10: a definition name = ( body ) never evaluates body: it returns zero
\* and stores the body tokens under name even when evaluating the body would
\* fail; the body is evaluated only when name is called, and after several
\* definitions of the same name a call uses the body of the most recent one.
DefinitionIsLazy ==
  /\ \A b \in LazyBodies :
       args = <<Def(NameG, b), <<"2", "+", "3">>, CallOf(NameG, << >>),
                Assign(NameY, <<"4">>), CallOf(NameG, << >>)>> =>
         /\ Evaluated(1) => results[1] = Ok(Zero) /\ Holds(functions, NameG, Stored(b))
         /\ (Evaluated(1) /\ argi <= 3) => NameY \notin DOMAIN variables
         /\ Evaluated(2) => results[2] = Ok(DInt(5))
         /\ Evaluated(3) => results[3] = LazyBefore(b)
         /\ Evaluated(4) => results[4] = Ok(Zero)
         /\ Evaluated(5) => results[5] = LazyAfter(b)
  /\ \A b1 \in {<<"1">>, <<"1", "/", "0">>}, b2 \in {<<"2">>, NameY}, b3 \in {<<"3">>, <<"4">>} :
       args = <<Def(NameG, b1), Def(NameG, b2), Def(NameG, b3), CallOf(NameG, << >>)>> =>
         /\ \A i \in 1..3 : Evaluated(i) => results[i] = Ok(Zero)
         /\ (Evaluated(1) /\ argi = 1) => Holds(functions, NameG, Stored(b1))
         /\ (Evaluated(2) /\ argi = 2) => Holds(functions, NameG, Stored(b2))
         /\ Evaluated(3) => Holds(functions, NameG, Stored(b3))
         /\ Evaluated(4) => results[4] = Ok(DInt(IF b3 = <<"3">> THEN 3 ELSE 4))

\* g=(y+1), 2+3, g(), y=4, g() has returned 0, 5, UnknownVariable y, 0, 5
DefinitionIsLazyWitness ==
  /\ args = <<Def(NameG, <<"y", "+", "1">>), <<"2", "+", "3">>, CallOf(NameG, << >>),
              Assign(NameY, <<"4">>), CallOf(NameG, << >>)>>
  /\ results = <<Ok(Zero), Ok(DInt(5)), UnknownY, Ok(Zero), Ok(DInt(5))>>

(***************************************************************************)
(* Further sessions: implicit multiplication, nesting, the arguments of    *)
(* calls, trailing tokens, the bit operators, precedence, failures and     *)
(* spaces.                                                                 *)
(***************************************************************************)
\* number literals, some beginning with the digit 0
Literals == {<<"2">>, <<"1", "0">>, <<"1", ".", "5">>, <<"0", ".", "5">>, <<"0", ".", "2", "5">>}
Group34 == <<"(", "3", "+", "4", ")">>
\* x=v and then the literal followed at once by x; the literal followed by (3+4)
ImplicitScripts ==
  {<<Assign(NameX, IntText(v)), n \o NameX>> : v \in {3, 4}, n \in Literals}
    \cup {<<n \o Group34>> : n \in Literals}

\* C11: a decimal literal n followed at once by an identifier x tokenizes to
\* Number(n), Mul, VarGet(x), and followed by ( to Number(n), Mul, ParenOpen,
\* also for literals beginning with 0: 2x with x = 3 is 6, 0.5x with x = 4
\* is 2, and 2(3+4) is 14.
LiteralThenNameMultiplies ==
  \A n \in Literals :
    /\ \A v \in {3, 4} :
         args = <<Assign(NameX, IntText(v)), n \o NameX>> =>
           /\ (argi = 2 /\ phase = "running") =>
                ctxs[1].tokens = <<TNum(parse_num(n).val), T("Mul"), TVarGet(NameX)>>
           /\ Evaluated(2) => results[2] = Ok(DMul(parse_num(n).val, DInt(v)))
    /\ args = <<n \o Group34>> =>
         /\ phase = "running" =>
              SubSeq(ctxs[1].tokens, 1, 3) = <<TNum(parse_num(n).val), T("Mul"), T("ParenOpen")>>
         /\ Evaluated(1) => results[1] = Ok(DMul(parse_num(n).val, DInt(7)))

(***************************************************************************)
(* Deep nesting.  The sessions below nest up to the depth ceiling; each    *)
(* parse_and_calc is taken as one step, which runs the evaluator's frames  *)
(* one after another until the call stack is empty.                        *)
(***************************************************************************)
\* the run reaches 2^RunDoublings steps of the evaluator
RunDoublings == 15
\* parentheses are nested 0 .. MaxNest deep, and at the depths next to U8Max
MaxNest == 50

\* one step of the evaluator: the frame on top of the call stack runs
Step(M) ==
  LET fn == Top(M).fn
  IN CASE fn = "calculate" -> calculate(M)
       [] fn = "calc_level2" -> calc_level2(M)
       [] fn = "calc_level3" -> calc_level3(M)
       [] fn = "calc_level4" -> calc_level4(M)
       [] fn = "calc_level5" -> calc_level5(M)
       [] fn = "calc_level6" -> calc_level6(M)
       [] fn = "calc_level7" -> calc_level7(M)
       [] fn = "calc_level8" -> calc_level8(M)
       [] fn = "calc_level9" -> calc_level9(M)
       [] fn = "calc_paren" -> calc_paren(M)
       [] fn = "get_number" -> get_number(M)
       [] fn = "factorial" -> factorial(M)
       [] fn = "pow" -> pow(M)

\* the outermost calculate has returned, or the evaluation has aborted
Halted(M) == M.panic \/ M.stack = << >>

\* 2^k steps from M, or as many as it takes to halt
RECURSIVE RunFor(_, _)
RunFor(M, k) ==
  IF Halted(M) THEN M
  ELSE IF k = 0 THEN Step(M)
  ELSE RunFor(RunFor(M, k - 1), k - 1)

\* the machine M becomes the state; parse_and_calc returns the result of a
\* calculate that has returned
Finish(M) ==
  /\ results' = IF M.panic THEN Append(results, Err("panic", << >>))
                ELSE IF M.stack = << >> THEN Append(results, M.ret)
                ELSE results
  /\ phase' = IF M.panic THEN "crashed"
              ELSE IF M.stack = << >> THEN "idle" ELSE "running"
  /\ ctxs' = IF Halted(M) THEN << >> ELSE M.ctxs
  /\ stack' = IF Halted(M) THEN << >> ELSE M.stack
  /\ ret' = M.ret
  /\ variables' = M.variables
  /\ functions' = M.functions
  /\ UNCHANGED <<args, argi>>

\* calculate, called by parse_and_calc on the new Context, up to its return
\* to parse_and_calc (2^RunDoublings steps at most are taken at once)
Evaluate == phase = "running" /\ Finish(RunFor(Machine, RunDoublings))

\* body inside n pairs of parentheses
Parens(n, body) == [i \in 1..n |-> "("] \o body \o [i \in 1..n |-> ")"]
\* f=(f()) and f()
SelfCall == <<Def(NameF, CallOf(NameF, << >>)), CallOf(NameF, << >>)>>
\* 1!+pow(2,1)
SomeWork == <<"1", "!", "+">> \o PowCall(<<"2">>, <<"1">>)
\* f=(f($1)), f(1) and 1!+pow(2,1)
SelfCallWithArgument ==
  <<Def(NameF, CallOf(NameF, Arg1)), CallOf(NameF, <<"1">>), SomeWork>>
\* f=(1+(g())), g=(f()*2) and g()
MutualCall ==
  <<Def(NameF, <<"1", "+", "(">> \o CallOf(NameG, << >>) \o <<")">>),
    Def(NameG, CallOf(NameF, << >>) \o <<"*", "2">>), CallOf(NameG, << >>)>>
NestDepths == (0..MaxNest) \cup ((U8Max - Near)..(U8Max + Near))
NestScripts == {<<Parens(n, <<"1">>)>> : n \in NestDepths}
DeepScripts == {SelfCall, SelfCallWithArgument, MutualCall} \cup NestScripts

NextDeep == ParseAndCalc \/ Evaluate
SpecDeep == InitWith(DeepScripts) /\ [][NextDeep]_vars

TooDeep == Err("TooDeep", << >>)
\* what the sessions of DeepScripts return
DeepResults(script) ==
  CASE script = SelfCall -> <<Ok(Zero), TooDeep>>
    [] script = SelfCallWithArgument -> <<Ok(Zero), TooDeep, Ok(DInt(3))>>
    [] script = MutualCall -> <<Ok(Zero), Ok(Zero), TooDeep>>
    [] OTHER -> IF Len(script[1]) >= 2 * U8Max THEN <<TooDeep>> ELSE <<Ok(DInt(1))>>

\* C12: evaluation always terminates with a result: a call of a function
\* whose body calls itself returns TooDeep, as does an input nested 255
\* levels deep, and the level counter never exceeds 255 (no evaluation is
\* left running or aborted on the overflow of the counter).
EvaluationTerminates ==
  /\ phase = "idle" \/ (phase = "running" /\ stack = <<Frame("calculate")>>)
  /\ \A i \in 1..Len(results) : results[i] = DeepResults(args)[i]

\* f=(f()), f() has returned 0 and TooDeep
SelfCallWitness == args = SelfCall /\ results = <<Ok(Zero), TooDeep>>


\* bodies over $1 and $2 that fail: $1/0, $1+y, $3, g($1), $1%0
FailingBodies ==
  {<<"$", "1", "/", "0">>, <<"$", "1", "+", "y">>, <<"$", "3">>, CallOf(NameG, Arg1),
   <<"$", "1", "%", "0">>}
\* f(1,2)
Call12 == CallOf(NameF, <<"1", ",", "2">>)
\* g=($3+$1), f=(g($1,2,3)+$2) and f(1,2); the same with a body of g that fails
NestedCalls ==
  {<<Def(NameG, b), Def(NameF, CallOf(NameG, <<"$", "1", ",", "2", ",", "3">>) \o <<"+", "$", "2">>),
     Call12>> : b \in {<<"$", "3", "+", "$", "1">>, <<"$", "3", "/", "0">>}}
\* $1=5 and $x=(1)
DollarAssignments == {<<"$", "1", "=", "5">>, <<"$", "x", "=", "(", "1", ")">>}
ArgumentScripts ==
  {<<Def(NameF, b), Call12, XPlus1>> : b \in Bodies \cup FailingBodies}
    \cup NestedCalls
    \cup {<<t, Def(NameF, Arg1), CallOf(NameF, <<"7">>)>> : t \in DollarAssignments}

IsArgumentName(k) == Len(k) > 0 /\ k[1] = "$"
DisallowedVariable(name) == Err("ParseError", <<"DisallowedVariable", name>>)

\* C13: after every top-level evaluation, returning a value or an error,
\* the variables map holds no name starting with $ (the bindings $1..$n of a
\* call are removed when the body succeeds and when it fails), and an
\* assignment to a name starting with $ is rejected with DisallowedVariable.
ArgumentsAreRemoved ==
  /\ phase = "idle" => \A k \in DOMAIN variables : ~IsArgumentName(k)
  /\ \A i \in 1..Len(results) :
       args[i] \in DollarAssignments =>
         results[i] = DisallowedVariable(SubSeq(args[i], 1, 2))

\* f=($1/0), f(1,2) has returned DivideByZero
ArgumentsAreRemovedWitness ==
  /\ Len(args) = 3
  /\ args[1] = Def(NameF, <<"$", "1", "/", "0">>)
  /\ args[2] = Call12
  /\ Len(results) = 2
  /\ phase = "idle"
  /\ results[2] = Err("DivideByZero", << >>)


\* texts whose token number `at`, of kind `kind`, is left by the cascade
Left(text, at, kind) == [text |-> text, at |-> at, kind |-> kind]
LeftOver ==
  {Left(<<"3", ")">>, 2, "ParenClose"),
   Left(<<"1", ",", "2">>, 2, "Separator"),
   Left(<<"(", "1", ")", "(", "2", ")">>, 4, "ParenOpen"),
   Left(<<"(", "1", ")", "2">>, 4, "Num"),
   Left(<<"(", "1", ")", "x">>, 4, "VarGet"),
   Left(<<"(", "1", ")", "x", "=", "2">>, 4, "VarAssign"),
   Left(<<"(", "1", ")", "f", "(", "2", ")">>, 4, "BlockName"),
   Left(<<"3", "!", "!">>, 3, "Factorial"),
   Left(<<"1", "~", "2">>, 2, "Not"),
   Left(<<"1", "^", "2", ")">>, 4, "ParenClose"),
   Left(<<"1", ")", "+", "1">>, 2, "ParenClose"),
   Left(<<"2", "!", ",">>, 3, "Separator"),
   Left(<<"x", "=", "1", ")">>, 3, "ParenClose"),
   Left(<<"(", "1", ")", ")">>, 4, "ParenClose"),
   Left(<<"a", "b", "s", "(", "1", ")", ",", "2">>, 5, "Separator")}
\* texts whose nested contexts end at a closing parenthesis or a separator
Valued(text, val) == [text |-> text, val |-> val]
Nested ==
  {Valued(<<"(", "1", ")">>, 1),
   Valued(<<"(", "(", "2", ")", ")">>, 2),
   Valued(<<"(", "1", "+", "2", ")", "*", "3">>, 9),
   Valued(<<"a", "b", "s", "(", "0", "-", "4", ")">>, 4),
   Valued(PowCall(<<"2">>, <<"1">>), 2),
   Valued(PowCall(<<"(", "3", ")">>, <<"(", "1", ")">>), 3),
   Valued(<<"(", "1", "^", "2", ")">>, 3),
   Valued(<<"(", "2", ")", "!">>, 2)}
EOFScripts == {<<l.text>> : l \in LeftOver} \cup {<<n.text>> : n \in Nested}

\* calc_paren has an argument or a group back from calculate
ArgumentReturned ==
  /\ Running("calc_paren")
  /\ Top(Machine).pc = 1
  /\ ret.st = "Ok"

\* C14: when the cascade returns with tokens left, the outermost context
\* fails with ExpectedEOF carrying the first token left, whatever its kind,
\* a closing parenthesis and a separator included; a nested context returns
\* its value at a closing parenthesis or a separator and leaves that token
\* for its caller.
LeftOverIsExpectedEOF ==
  /\ \A l \in LeftOver :
       Only(l.text) =>
         /\ parse(l.text).tokens[l.at].t = l.kind
         /\ results[1] = Err("ExpectedEOF", <<parse(l.text).tokens[l.at]>>)
  /\ \A n \in Nested :
       /\ Only(n.text) => results[1] = Ok(DInt(n.val))
       /\ args = <<n.text>> /\ ArgumentReturned =>
            Peek(Machine) \in {"ParenClose", "Separator"}

\* 3) has failed with ExpectedEOF of the closing parenthesis
LeftOverWitness ==
  /\ Only(<<"3", ")">>)
  /\ results[1] = Err("ExpectedEOF", <<Tok("ParenClose", << >>, Zero)>>)


\* shift amounts: small ones and those around the width of a machine word
Shifts == (0..MaxInt) \cup {MaxExp, 63, 64, 65}
ShiftLeft(a, n) == Bin(a, <<"<", "<">>, n)
NotWholes == {<<"2", ".", "5">>, <<"0", ".", "5">>, <<"(", "1", "/", "4", ")">>,
              <<"(", "0", "-", "1", ".", "5", ")">>}
NegativeShifts == {<<"-", "1">>, <<"(", "0", "-", "1", ")">>, <<"-", "0", ".", "5">>,
                   <<"(", "0", "-", "6", "4", ")">>}
ShiftScripts ==
  {<<ShiftLeft(IntText(a), IntText(n))>> : a \in Assigned, n \in Shifts}
    \cup {<<ShiftLeft(a, IntText(n))>> : a \in NotWholes, n \in {0, 1}}
    \cup {<<ShiftLeft(IntText(a), n)>> : a \in {0, 1}, n \in NegativeShifts}

\* 2^n, by squaring
RECURSIVE TwoTo(_)
TwoTo(n) ==
  IF n = 0 THEN One
  ELSE LET h == TwoTo(n \div 2)
       IN Then(h, IF n % 2 = 0 THEN DMul(h, h) ELSE DMul(DInt(2), DMul(h, h)))
\* 18446744073709551616
TwoTo64 ==
  <<"1", "8", "4", "4", "6", "7", "4", "4", "0", "7", "3", "7", "0", "9", "5", "5", "1",
    "6", "1", "6">>

\* C15: for a whole a and a whole n >= 0 that fits a machine word, a << n is
\* exactly a * 2^n, without a 64-bit limit (1<<64 is 18446744073709551616);
\* a left operand that is not whole fails with NotAWhole and a negative
\* shift amount with NotAPrimitive.
ShiftLeftIsExact ==
  /\ \A a \in Assigned, n \in Shifts :
       Only(ShiftLeft(IntText(a), IntText(n))) =>
         results[1] = Ok(DMul(DInt(a), TwoTo(n)))
  /\ Only(ShiftLeft(<<"1">>, <<"6", "4">>)) => results[1] = Ok(parse_num(TwoTo64).val)
  /\ \A a \in NotWholes, n \in {0, 1} :
       Only(ShiftLeft(a, IntText(n))) => results[1] = Err("NotAWhole", << >>)
  /\ \A a \in {0, 1}, n \in NegativeShifts :
       Only(ShiftLeft(IntText(a), n)) => results[1] = Err("NotAPrimitive", <<"usize">>)

\* 1<<64 has returned a value above the 64-bit range
ShiftLeftWitness ==
  /\ Only(ShiftLeft(<<"1">>, <<"6", "4">>))
  /\ results[1].st = "Ok"
  /\ Len(results[1].val.d) = Len(TwoTo64)


BitOps == {"^", "|", "&"}
BitName(op) == CASE op = "^" -> "xor" [] op = "|" -> "or" [] op = "&" -> "and"
\* whole operands inside the i64 range
BitInts == {0 - 8, 0 - 1, 0, 3, 5, 6}
\* 9223372036854775808 and -9223372036854775809
AboveI64 == <<"9", "2", "2", "3", "3", "7", "2", "0", "3", "6", "8", "5", "4", "7", "7", "5",
              "8", "0", "8">>
BelowI64 == <<"-", "9", "2", "2", "3", "3", "7", "2", "0", "3", "6", "8", "5", "4", "7", "7",
              "5", "8", "0", "9">>
\* operands that are no i64: outside the range, or not whole
NoI64 == {AboveI64, BelowI64, <<"2", ".", "5">>, <<"3", ".", "7">>, <<"0", ".", "5">>}
BitScripts ==
  {<<Bin(IntText(a), <<op>>, IntText(b))>> : a \in BitInts, b \in BitInts, op \in BitOps}
    \cup {<<Bin(a, <<op>>, IntText(b))>> : a \in NoI64, b \in {1, 6}, op \in BitOps}
    \cup {<<Bin(IntText(a), <<op>>, b)>> : a \in {1, 6}, b \in NoI64, op \in BitOps}

\* the bitwise operation on the two's complements of two small integers
SmallBits(op, a, b) ==
  LET r == BitsOp(BitName(op), (a + 256) % 256, (b + 256) % 256, 8)
  IN IF r >= 128 THEN r - 256 ELSE r

\* C16: ^, | and & fail with NotAPrimitive when either operand is outside
\* the i64 range or is not a whole number, and otherwise return the bitwise
\* XOR, OR or AND of the two's complements of the operands.
BitwiseNeedsI64 ==
  \A op \in BitOps :
    /\ \A a \in BitInts, b \in BitInts :
         Only(Bin(IntText(a), <<op>>, IntText(b))) =>
           results[1] = Ok(DInt(SmallBits(op, a, b)))
    /\ \A a \in NoI64, b \in {1, 6} :
         /\ Only(Bin(a, <<op>>, IntText(b))) =>
              results[1] = Err("NotAPrimitive", <<"i64">>)
         /\ Only(Bin(IntText(b), <<op>>, a)) =>
              results[1] = Err("NotAPrimitive", <<"i64">>)


\* a op1 b op2 c
Tri(a, op1, b, op2, c) == IntText(a) \o op1 \o IntText(b) \o op2 \o IntText(c)
Smalls == {1, 2, 3}
\* dividends that every b*c of Smalls divides, so that a/b/c is exact
Dividend(a) == 36 * a
\* pairs of operators of the cascade
OpPairs ==
  {<<"-", "-">>, <<"/", "/">>, <<"<<", "<<">>, <<"+", "*">>, <<"<<", "+">>, <<"|", "&">>,
   <<"^", "|">>, <<"&", "<<">>, <<"*", "-">>, <<"-", "*">>, <<"+", "<<">>, <<"%", "%">>,
   <<">>", ">>">>, <<"-", "+">>, <<"/", "*">>, <<"&", "^">>}
\* the characters of an operator
OpText(op) ==
  IF op = "<<" THEN <<"<", "<">> ELSE IF op = ">>" THEN <<">", ">">> ELSE <<op>>
\* the first operand: a, a multiple of it in front of / and a larger one in
\* front of >>
First(a, op) ==
  IF op = "/" THEN Dividend(a) ELSE IF op = ">>" THEN 64 * a ELSE a
PrecedenceText(a, p, b, c) == Tri(First(a, p[1]), OpText(p[1]), b, OpText(p[2]), c)
PrecedenceScripts ==
  {<<PrecedenceText(a, p, b, c)>> : a \in Smalls, b \in Smalls, c \in Smalls, p \in OpPairs}

\* a op b on small integers
IntOp(a, op, b) ==
  CASE op = "+" -> a + b
    [] op = "-" -> a - b
    [] op = "*" -> a * b
    [] op = "/" -> a \div b
    [] op = "%" -> a % b
    [] op = "<<" -> a * Pow2Small(b)
    [] op = ">>" -> a \div Pow2Small(b)
    [] op \in BitOps -> SmallBits(op, a, b)
\* the levels of the cascade, the loosest first
Level(op) ==
  CASE op = "^" -> 1
    [] op = "|" -> 2
    [] op = "&" -> 3
    [] op \in {"<<", ">>"} -> 4
    [] op \in {"+", "-"} -> 5
    [] op \in {"*", "/", "%"} -> 6
\* a op1 b op2 c grouped by the levels, and to the left inside a level
Grouped(a, p, b, c) ==
  IF Level(p[2]) > Level(p[1])
  THEN IntOp(a, p[1], IntOp(b, p[2], c))
  ELSE IntOp(IntOp(a, p[1], b), p[2], c)

\* each text with the value of its grouping
PrecedenceTable ==
  {<<PrecedenceText(a, p, b, c), Grouped(First(a, p[1]), p, b, c)>> :
     a \in Smalls, b \in Smalls, c \in Smalls, p \in OpPairs}

\* C17: binary operators group by the cascade, from loosest to tightest
\* ^, |, &, << >>, + -, * / %, and the operators of the shift, additive and
\* multiplicative levels group to the left: a-b-c = (a-b)-c, a/b/c = (a/b)/c,
\* a<<b<<c = (a<<b)<<c, a+b*c = a+(b*c), a<<b+c = a<<(b+c), a|b&c = a|(b&c).
PrecedenceCascade ==
  Len(args) = 1 /\ Evaluated(1) =>
    \A e \in PrecedenceTable : args[1] = e[1] => results[1] = Ok(DInt(e[2]))

\* 3-2-1 has returned 0
PrecedenceWitness == Only(Tri(3, <<"-">>, 2, <<"-">>, 1)) /\ results[1] = Ok(Zero)


\* a text that fails, with the variables (name, value) and the functions
\* (name, body) it assigns before it fails
Failing(text, assigned, defined) == [text |-> text, vars |-> assigned, funs |-> defined]
FailingTexts ==
  {Failing(<<"y", "=", "7", "+", "z">>, {}, {}),
   Failing(<<"x", "=", "1", "/", "0">>, {}, {}),
   Failing(<<"x", "=", "y", "=", "1", "/", "0">>, {}, {}),
   Failing(<<"(", "y", "=", "7", ")", "+", "z">>, {<<NameY, 7>>}, {}),
   Failing(<<"(", "x", "=", "5", ")", "+", "1", "/", "0">>, {<<NameX, 5>>}, {}),
   Failing(<<"(", "x", "=", "5", ")", "+", "(", "y", "=", "6", ")", "+", "z">>,
           {<<NameX, 5>>, <<NameY, 6>>}, {}),
   Failing(<<"(", "x", "=", "x", "+", "1", ")", "+", "(", "x", "=", "z", ")">>,
           {<<NameX, 2>>}, {}),
   Failing(<<"g", "=", "(", "3", ")", ")">>, {}, {<<NameG, <<"3">>>>}),
   Failing(<<"f", "=", "(", "3", ")", "+", "z">>, {}, {<<NameF, <<"3">>>>}),
   Failing(<<"(", "y", "=", "4", ")", "+", "(", "g", "=", "(", "y", ")", ")", "+", "g", "(", ")",
             "/", "0">>, {<<NameY, 4>>}, {<<NameG, NameY>>}),
   Failing(<<"g", "=", "(", "1", ",", "2", ")">>, {}, {}),
   Failing(<<"g", "=", "(", "1">>, {}, {}),
   Failing(<<"h", "(", "9", ")">>, {}, {}),
   Failing(<<"f", "(", "x", "=", "1", "/", "0", ")">>, {}, {}),
   Failing(<<"(", "y", "=", "2", ")", "+", "3", "!", "/", "0">>, {<<NameY, 2>>}, {}),
   Failing(<<"(", "y", "=", "3", ")", "!", "+", "(", "0", ".", "5", ")", "!">>,
           {<<NameY, 3>>}, {}),
   Failing(<<"y", "=", "2", ")">>, {}, {})}
FailureScripts ==
  {<<Assign(NameX, <<"1">>), Def(NameF, <<"2">>), t.text>> : t \in FailingTexts}

\* map with the pairs (key, To(value)) written over it
Overlay(map, pairs, To(_)) ==
  [k \in DOMAIN map \cup {p[1] : p \in pairs} |->
     IF \E p \in pairs : p[1] = k THEN To((CHOOSE p \in pairs : p[1] = k)[2]) ELSE map[k]]
\* the Environment after x=1 and f=(2)
VariablesBefore == [k \in {<<"o", "u", "t">>, NameX} |-> IF k = NameX THEN One ELSE DInt(10)]
FunctionsBefore == [k \in {NameF} |-> Stored(<<"2">>)]

\* C18: when a top-level evaluation fails, the assignments and definitions
\* completed before the failure remain and nothing else changes: an
\* assignment whose right-hand side fails leaves the earlier value or the
\* absence of the variable, and no other variable or function is added,
\* changed or removed.
FailureKeepsCompleted ==
  Len(args) = 3 /\ Evaluated(3) /\ phase = "idle" =>
    \A t \in FailingTexts :
      args = <<Assign(NameX, <<"1">>), Def(NameF, <<"2">>), t.text>> =>
        /\ results[3].st \notin {"Ok", "panic"}
        /\ variables = Overlay(VariablesBefore, t.vars, DInt)
        /\ functions = Overlay(FunctionsBefore, t.funs, Stored)

\* x=1, f=(2), (x=5)+1/0 has failed with DivideByZero and x is 5
FailureWitness ==
  /\ Len(args) = 3
  /\ args[3] = <<"(", "x", "=", "5", ")", "+", "1", "/", "0">>
  /\ Evaluated(3)
  /\ results[3] = Err("DivideByZero", << >>)
  /\ Holds(variables, NameX, DInt(5))


\* texts with spaces: around operators, inside a literal, inside an
\* identifier, in front, at the end, and inside << and >>
SpacedTexts ==
  {<<"1", " ", "+", " ", "2">>,
   <<"1", " ", "2">>,
   <<"1", " ", ".", " ", "5">>,
   <<"o", " ", "u", "t">>,
   <<" ", "x", " ", "=", " ", "5", " ">>,
   <<"a", "b", "s", " ", "(", " ", "0", "-", "1", " ", ")">>,
   <<"2", " ", "(", "3", ")">>,
   <<"2", " ", "o", "u", "t">>,
   <<"1", " ", "<", "<", " ", "2">>,
   <<"8", " ", ">", ">", " ", "1">>,
   <<"1", "<", " ", "<", "2">>,
   <<"8", ">", " ", ">", "1">>,
   <<"1", "<", " ">>,
   <<" ">>}
SpaceScripts == {<<t>> : t \in SpacedTexts}
NotSpace(c) == c # " "
\* the text with every space removed
Unspaced(text) == SelectSeq(text, NotSpace)

\* C19: tokenizing a text gives the same tokens or the same ParseError as
\* tokenizing it with every space removed, also for spaces inside a literal,
\* inside an identifier and between the two characters of << or >>.
SpacesAreSkipped ==
  \A i \in 1..Len(args) :
    /\ parse(args[i]) = parse(Unspaced(args[i]))
    /\ (Evaluated(i) /\ args[i] = <<"1", "<", " ", "<", "2">>) => results[i] = Ok(DInt(4))


\* g=($1+1), then a function f whose body reads $1 after calling g, then f(2)
CallerBodies ==
  {CallOf(NameG, Arg1) \o <<"+">> \o Arg1,
   CallOf(NameG, <<"7">>) \o <<"*">> \o Arg1,
   Arg1 \o <<"+">> \o CallOf(NameG, <<"7">>) \o <<"+">> \o Arg1}
NestedArgumentScripts ==
  {<<Def(NameG, <<"$", "1", "+", "1">>), Def(NameF, b), CallOf(NameF, <<"2">>)>> :
     b \in CallerBodies}
\* the value of the body for $1 = 2, g being $1+1
CallerValue(b) ==
  CASE b = CallOf(NameG, Arg1) \o <<"+">> \o Arg1 -> 5
    [] b = CallOf(NameG, <<"7">>) \o <<"*">> \o Arg1 -> 16
    [] b = Arg1 \o <<"+">> \o CallOf(NameG, <<"7">>) \o <<"+">> \o Arg1 -> 12

\* C20: while the body of a user function is evaluated, $i keeps the value
\* bound for the call: after a nested call of a user function made from the
\* body returns, $i still reads as the caller's i-th argument.
ArgumentsSurviveNestedCall ==
  \A b \in CallerBodies :
    (args = <<Def(NameG, <<"$", "1", "+", "1">>), Def(NameF, b), CallOf(NameF, <<"2">>)>>
       /\ Evaluated(3)) => results[3] = Ok(DInt(CallerValue(b)))


\* -p
Minus(p) == <<"-">> \o p
\* the operands a > 0 of -a!
MinusOperands == FactOperands \ {0}
\* primaries other than a literal: a group and calls
Primaries ==
  {<<"(", "3", ")">>, <<"(", "2", "+", "1", ")">>, <<"a", "b", "s", "(", "3", ")">>,
   PowCall(<<"2">>, <<"1">>)}
\* binary operators behind -a
MinusOps == {"*", "-", "+", "^"}
MinusScripts ==
  {<<Postfix(Minus(IntText(a)))>> : a \in MinusOperands}
    \cup {<<Postfix(Minus(p))>> : p \in Primaries}
    \cup {<<Assign(NameX, IntText(a)), Postfix(Minus(NameX))>> : a \in 1..MaxInt}
    \cup {<<Minus(Bin(IntText(a), <<op>>, IntText(b)))>> :
            a \in 1..MaxInt, b \in 1..MaxInt, op \in MinusOps}
    \cup {<<Minus(Minus(IntText(a)))>> : a \in 1..MaxInt}
    \cup {<<Assign(NameX, IntText(a)), Minus(Minus(NameX))>> : a \in 1..MaxInt}

NotAPositive == Err("NotAPositive", << >>)
\* (-a) op b on small integers
NegatedFirst(a, op, b) ==
  CASE op = "*" -> (0 - a) * b
    [] op = "-" -> (0 - a) - b
    [] op = "+" -> (0 - a) + b
    [] op = "^" -> SmallBits(op, 0 - a, b)

\* C21: a prefix minus negates only the primary that follows it (literal,
\* variable, group or call) before any postfix or binary operator applies:
\* -a! is (-a)! and fails with NotAPositive for every whole a > 0, -a*b is
\* (-a)*b and --a is a.
MinusBindsPrimary ==
  /\ \A a \in MinusOperands :
       Only(Postfix(Minus(IntText(a)))) => results[1] = NotAPositive
  /\ \A p \in Primaries : Only(Postfix(Minus(p))) => results[1] = NotAPositive
  /\ \A a \in 1..MaxInt :
       /\ (args = <<Assign(NameX, IntText(a)), Postfix(Minus(NameX))>> /\ Evaluated(2)) =>
            results[2] = NotAPositive
       /\ (args = <<Assign(NameX, IntText(a)), Minus(Minus(NameX))>> /\ Evaluated(2)) =>
            results[2] = Ok(DInt(a))
       /\ Only(Minus(Minus(IntText(a)))) => results[1] = Ok(DInt(a))
       /\ \A b \in 1..MaxInt, op \in MinusOps :
            Only(Minus(Bin(IntText(a), <<op>>, IntText(b)))) =>
              results[1] = Ok(DInt(NegatedFirst(a, op, b)))

\* -3! has failed with NotAPositive
MinusWitness == Only(<<"-", "3", "!">>) /\ results[1] = NotAPositive

(***************************************************************************)
(* The sessions of the second specification.                               *)
(***************************************************************************)
Scripts2 == ImplicitScripts \cup ArgumentScripts \cup EOFScripts
  \cup ShiftScripts \cup BitScripts \cup PrecedenceScripts
  \cup FailureScripts \cup SpaceScripts \cup NestedArgumentScripts \cup MinusScripts

Spec2 == InitWith(Scripts2) /\ [][Next]_vars

====
